---- MODULE Spec2Model ----
(***************************************************************************)
(* mcp-outlet (Python): the JSON-RPC dispatcher rpc_handler, the           *)
(* process-wide admission lock _rpc_lock, the per-call McpCaller bridge    *)
(* and the response assembly of generate_jsonrpc_response.                 *)
(*                                                                         *)
(* Calls are coroutines of one asyncio event loop.  A call's frame (its    *)
(* request_data, the pending exception, the value about to be returned,    *)
(* the bridge's cached handshake result) lives from admission to return.   *)
(*                                                                         *)
(* Spec is the dispatcher and LiveSpec the dispatcher with every call     *)
(* scheduled fairly; ThreadSpec is the dispatcher with the worker threads  *)
(* that outlive stop(); CallerSpec is the interface of one McpCaller       *)
(* (connect, execute_mcp_call, close) driven in any order; BridgeSpec is   *)
(* one McpCaller with its server thread, the lines between them and the    *)
(* process's standard streams; TracerSpec is one Tracer; FormatSpec is     *)
(* format_error and ResolverSpec parse_mcp_server_params over bounded      *)
(* sets of inputs.                                                         *)
(***************************************************************************)
EXTENDS Integers, Sequences, FiniteSets, TLC

\* ---------------------------------------------------------------- bounds
NumCalls == 2
MaxLaunches == 2
MaxLines == 3
MaxId == 2
MaxRequests == 2
MaxUnsolicited == 1
MaxOps == 3
MaxChildSpans == 2

Calls == 1..NumCalls
Ids == 1..MaxId

\* ------------------------------------------------------- error taxonomy
INVALID_REQUEST == -32600
METHOD_NOT_FOUND == -32601
INTERNAL_ERROR == -32603
CONNECTION_CLOSED == -32001
REQUEST_TIMEOUT == -32002

\* ------------------------------------------------------------- strings
\* None, where a string may stand
Null == "<null>"

StartsWith(s, p) == Len(s) >= Len(p) /\ SubSeq(s, 1, Len(p)) = p

RECURSIVE Join(_, _)
Join(names, sep) ==
    IF names = <<>> THEN ""
    ELSE IF Len(names) = 1 THEN names[1]
    ELSE names[1] \o sep \o Join(Tail(names), sep)

\* ---------------------------------------------------------- method table
\* kind: "Local" is a callable entry, "Forwarded" is True, "Rejected" is False.
handlers_map ==
    << [name |-> "ping", kind |-> "Local"],
       [name |-> "logging/setLevel", kind |-> "Local"],
       [name |-> "notifications/initialized", kind |-> "Local"],
       [name |-> "initialize", kind |-> "Forwarded"],
       [name |-> "prompts/get", kind |-> "Forwarded"],
       [name |-> "prompts/list", kind |-> "Forwarded"],
       [name |-> "resources/list", kind |-> "Forwarded"],
       [name |-> "resources/templates/list", kind |-> "Forwarded"],
       [name |-> "resources/read", kind |-> "Forwarded"],
       [name |-> "tools/call", kind |-> "Forwarded"],
       [name |-> "tools/list", kind |-> "Forwarded"],
       [name |-> "completion/complete", kind |-> "Forwarded"],
       [name |-> "notifications/roots/list_changed", kind |-> "Rejected"],
       [name |-> "resources/unsubscribe", kind |-> "Rejected"],
       [name |-> "resources/subscribe", kind |-> "Rejected"],
       [name |-> "sampling/createMessage", kind |-> "Rejected"],
       [name |-> "roots/list", kind |-> "Rejected"] >>

TableNames == { handlers_map[i].name : i \in 1..Len(handlers_map) }

IndexOf(method) ==
    (CHOOSE i \in 1..Len(handlers_map) : handlers_map[i].name = method)

\* handlers_map.get(method): the entry's kind, "None" for a missing key.
Lookup(method) ==
    IF method \in TableNames THEN handlers_map[IndexOf(method)].kind ELSE "None"

\* The filter "value is True" in place of "value is not False".
IsForwardedEntry(entry) == entry.kind = "Forwarded"

IsNotRejected(entry) == entry.kind # "Rejected"

RECURSIVE Names(_)
Names(entries) ==
    IF entries = <<>> THEN <<>>
    ELSE <<Head(entries).name>> \o Names(Tail(entries))

\* [key for key, value in handlers_map.items() if value is not False]
supported_methods == Names(SelectSeq(handlers_map, IsNotRejected))

\* -------------------------------------------------------------- requests
\* handler_input.data by the shapes the handler distinguishes:
\*   data    "None" (None or another falsy value), "NonDict" (a truthy value
\*           without .get: a list, a string), "Dict";
\*   params  "Absent" (missing or falsy), "NonDict" (truthy, not an object),
\*           "Dict";
\*   meta    "Absent" (missing or falsy), "NonDict" (truthy, not an object),
\*           "Invalid" (an object CustomRequestMeta rejects: no server, or a
\*           server that is no valid descriptor), "Valid";
\*   id      <<>> when the request carries no id, <<v>> when it carries v;
\*   method  the method name, "" when absent, Unhashable for a value that is
\*           no name and cannot be a dictionary key (a list, an object);
\*   command _meta.server.command of a valid descriptor.
Unhashable == "<unhashable>"
ReqMethods == TableNames \cup {"", "tools/unknown", Unhashable}
Commands == {"uv", "uvx", "uvicorn", "python"}
IdFields == {<<>>} \cup { <<v>> : v \in Ids }

NoRequest ==
    [data |-> "Unbound", params |-> "Absent", meta |-> "Absent",
     id |-> <<>>, method |-> "", command |-> ""]

Requests ==
    { r \in [data : {"None", "NonDict", "Dict"},
             params : {"Absent", "NonDict", "Dict"},
             meta : {"Absent", "NonDict", "Invalid", "Valid"},
             id : IdFields, method : ReqMethods, command : Commands \cup {""}] :
        /\ r.data # "Dict" =>
              r.params = "Absent" /\ r.id = <<>> /\ r.method = ""
        /\ r.params # "Dict" => r.meta = "Absent"
        /\ (r.meta = "Valid") <=> (r.command # "") }

HasId(r) == r.id # <<>>

\* ------------------------------------------------------------ exceptions
NoExc == [type |-> "None", code |-> 0, message |-> ""]

\* CustomError(code, message)
CustomError(code, message) ==
    [type |-> "CustomError", code |-> code, message |-> message]

\* CustomError(code, message, data) with a non-empty data
CustomErrorData(code, message, data) ==
    [type |-> "CustomError", code |-> code, message |-> message, data |-> data]

\* any other exception class; str(e) is its message
Exception(type, message) == [type |-> type, code |-> 0, message |-> message]

MetaMessage == "Request _meta must be including correct server configuration"
SupportedMessage ==
    "Rpc supporting only " \o Join(supported_methods, ", ") \o " methods"
NotificationMessage(method) == "Method not found: " \o method
CommandMessage == "Only uv or uvx command is supported for now"

\* str.replace(old, ""): every occurrence of old is taken out.
RECURSIVE Remove(_, _)
Remove(s, old) ==
    IF Len(s) < Len(old) THEN s
    ELSE IF StartsWith(s, old)
         THEN Remove(SubSeq(s, Len(old) + 1, Len(s)), old)
         ELSE SubSeq(s, 1, 1) \o Remove(SubSeq(s, 2, Len(s)), old)

\* A value that is no exception and has the keys code and message:
\* code_is_int says whether code is an integer (else a text such as "E1"),
\* message_is_str whether message is a string (else a number), data_kind
\* what the data member is: "absent", "dict" or "text".
DictError(code_is_int, code, message_is_str, message, data_kind) ==
    [type |-> "dict", code_is_int |-> code_is_int, code |-> code,
     message_is_str |-> message_is_str, message |-> message,
     data_kind |-> data_kind]

\* A value that is neither an exception nor such a dictionary (42, "text"),
\* with its str().
OtherValue(str) == [type |-> "value", str |-> str]

\* The value None.
NoneValue == OtherValue(Null)

\* The data member of a dictionary that has one.
DictData == {<<"detail", "d">>}

\* CustomErrorResponse(**error): code must be an int, message a str, data
\* a dictionary or absent.
IsCustomErrorResponse(e) ==
    e.code_is_int /\ e.message_is_str /\ e.data_kind \in {"absent", "dict"}

\* str(error) if error is not None else None, of a value that is no
\* exception.
StrOf(e) == IF e.type = "dict" THEN "{'code': ...}" ELSE e.str

\* format_error, lines 69-74: the fallback.
UnknownError(e) ==
    CustomErrorData(INTERNAL_ERROR, "Unknown error", {<<"error", StrOf(e)>>})

\* format_error, lines 51-61: the dictionary as a CustomError.
FromDict(e) ==
    LET message == Remove(e.message, "MCP error " \o ToString(e.code) \o ": ") IN
    IF e.data_kind = "dict"
    THEN CustomErrorData(e.code, message, DictData)
    ELSE CustomError(e.code, message)

\* format_error with the string form of an exception put into data.
format_error_into_data(e) ==
    CASE e.type = "CustomError" -> e
      [] e.type = "dict" ->
           IF IsCustomErrorResponse(e) THEN FromDict(e) ELSE UnknownError(e)
      [] e.type = "value" -> UnknownError(e)
      [] OTHER -> CustomErrorData(INTERNAL_ERROR, "Unknown error",
                                  {<<"error", e.message>>})

\* format_error: a CustomError passes through; a dictionary with code and
\* message that validates as CustomErrorResponse becomes a CustomError of
\* that code and data; another exception becomes
\* CustomError(INTERNAL_ERROR, str(error)); anything else the fallback.
format_error(e) ==
    CASE e.type = "CustomError" -> e
      [] e.type = "dict" ->
           IF IsCustomErrorResponse(e) THEN FromDict(e) ELSE UnknownError(e)
      [] e.type = "value" -> UnknownError(e)
      [] OTHER -> CustomError(INTERNAL_ERROR, e.message)

\* The response of an error without its data.
to_response_without_data(e) == [code |-> e.code, message |-> e.message]

\* CustomError.to_response: {"code": ..., "message": ...}, and "data" when
\* the error has some.
to_response(e) ==
    IF "data" \in DOMAIN e
    THEN [code |-> e.code, message |-> e.message, data |-> e.data]
    ELSE [code |-> e.code, message |-> e.message]

\* ------------------------------------------------------------- responses
NoValue == [none |-> TRUE]
Raised(type) == [raised |-> type]
IsRaised(v) == "raised" \in DOMAIN v
IsResponse(v) == "jsonrpc" \in DOMAIN v

\* A result handed to generate_jsonrpc_response: shape "None", "Dict" or
\* "NonDict" (a truthy value that is no mapping), and what it holds.
\* The payload of a Dict is its members, a set of <<name, value>> pairs
\* ("null" the value None, and the value of "_meta" the one key of that
\* object); another shape has none.
NoResult == [shape |-> "None", payload |-> {}]
DictResult(payload) == [shape |-> "Dict", payload |-> payload]
NonDictResult == [shape |-> "NonDict", payload |-> {}]

\* Line 45: data and data.get("params") and data["params"].get("_meta"),
\* outside what the except clause (ValidationError, TypeError, KeyError)
\* catches: .get on a value that has none is an AttributeError.
MetaLookupRaises(data) ==
    \/ data.data = "NonDict"
    \/ data.data = "Dict" /\ data.params = "NonDict"

\* Lines 44-57, custom_metadata: the keys of the _meta the response carries;
\* "server" when the request's _meta parsed, "trace" always (rpc_handler
\* passes its tracer).
custom_metadata(data) ==
    IF data.data = "Dict" /\ data.params = "Dict" /\ data.meta = "Valid"
    THEN {"server", "trace"}
    ELSE {"trace"}

\* Lines 59-82, the error member: the error's code and message, and a data
\* object of the error's own data (an object's members, else nothing) and
\* _meta.
error_member(error, data) ==
    [code |-> error.code, message |-> error.message,
     data |-> [fields |-> IF "data" \in DOMAIN error THEN error.data ELSE {},
               meta |-> custom_metadata(data)]]

\* The result member without the members of the result.
result_member_meta_only(result, data) ==
    [fields |-> {},
     meta |-> { m[2] : m \in { n \in result.payload : n[1] = "_meta" } }
                  \cup custom_metadata(data)]

\* Lines 91-104, the result member: the result's members, and a _meta of the
\* result's own _meta and custom_metadata.
result_member(result, data) ==
    [fields |-> { m \in result.payload : m[1] # "_meta" },
     meta |-> { m[2] : m \in { n \in result.payload : n[1] = "_meta" } }
                  \cup custom_metadata(data)]

\* The id echoed by the success branch alone.
WithIdOnSuccess(response, data) ==
    IF data.data = "Dict" /\ HasId(data) /\ "result" \in DOMAIN response
    THEN response @@ [id |-> data.id[1]]
    ELSE response

\* if data and "id" in data: response["id"] = data["id"]
WithId(response, data) ==
    IF data.data = "Dict" /\ HasId(data)
    THEN response @@ [id |-> data.id[1]]
    ELSE response

\* generate_jsonrpc_response(data, tracer, result, error): the response, or
\* the exception it raises.  error is NoValue for "no error".
generate_jsonrpc_response(data, result, error) ==
    IF MetaLookupRaises(data) THEN Raised("AttributeError")
    ELSE IF error # NoValue
    THEN WithId([jsonrpc |-> "2.0", error |-> error_member(error, data)], data)
    ELSE IF result.shape = "NonDict" THEN Raised("TypeError")
    ELSE WithId([jsonrpc |-> "2.0", result |-> result_member(result, data)],
                data)

\* ----------------------------------------------------------- trace spans
\* _end_previous_span(span, is_error)
end_previous_span(span, is_error) ==
    [span EXCEPT !.status = IF is_error THEN "error" ELSE "success"]

\* record_span(name, parent_seq) on the spans sps, parent being what
\* parent_seq or self.current_parent gives: the last span is ended if it is
\* running, and a running span is appended.
record_span(sps, name, parent) ==
    Append(IF sps # <<>> /\ sps[Len(sps)].status = "running"
           THEN [sps EXCEPT ![Len(sps)] = end_previous_span(@, FALSE)]
           ELSE sps,
           [seq |-> name, status |-> "running", is_valid |-> TRUE,
            parent_seq |-> parent])

\* get_trace, lines 217-220, on the spans sps: every running span is ended.
ended_spans(sps, last_span_success) ==
    [i \in DOMAIN sps |->
        IF sps[i].status = "running"
        THEN end_previous_span(sps[i], ~last_span_success)
        ELSE sps[i]]

\* generate_jsonrpc_response, lines 44-57, on the Tracer's spans: unless the
\* _meta lookup raises, tracer.get_trace(error is None) ends the running
\* spans.
response_trace(sps, data, error) ==
    IF MetaLookupRaises(data) THEN sps ELSE ended_spans(sps, error = NoValue)

\* ----------------------------------------------------------------- state
VARIABLES
    pc,        \* each call's position in rpc_handler
    locked,    \* _rpc_lock: asyncio.Lock._locked
    waiters,   \* _rpc_lock: the FIFO of calls suspended in acquire()
    woken,     \* waiters whose future release() has completed
    holder,    \* history: the call whose acquire() set locked, 0 for none
    acquired,  \* history: per call, how often its acquire() returned
    released,  \* history: per call, how often it ran _rpc_lock.release()
    req,       \* frame: request_data
    exc,       \* frame: the exception travelling to an except clause
    retval,    \* frame: the value the return statement evaluated, or Raised
    info,      \* frame: McpCaller.server_info ("None", "Empty" {} or "Info")
    events,    \* frame history: what the call has done so far
    handle,    \* the call's WorkerHandle: "None" (no McpCaller), "Created",
               \* "Starting", "Connected", "Closed"
    outcome,   \* what the caller of rpc_handler got: "pending", "response",
               \* "raised"
    mcp_caller,\* frame: the WorkerHandle the local mcp_caller refers to, named
               \* by the call that constructed it; 0 for None
    written,   \* frame history: the lines the call has written to a request
               \* channel, each with the WorkerHandle written to and the
               \* state that handle was in
    created,   \* history: per call, how many McpCaller it constructed
    tracer,    \* frame: the spans of the call's Tracer
    started,   \* history: per call, how many worker threads it started
    lingering, \* how many worker threads run on after stop() joined them
    is_connected, \* one McpCaller driven through its interface: _is_connected
    server_info,  \* that McpCaller's server_info: "None", "Empty", "Info",
                  \* "Scalar"
    server,       \* that McpCaller's _server: an index of servers, 0 for None
    servers,      \* every SimpleThreadedMcpServer that McpCaller constructed
    last,         \* history: the last call of that McpCaller's interface
    host,         \* one bridge, step by step: where its host coroutine is
    worker,       \* that bridge's worker thread: "unstarted", "new",
                  \* "running", "exited"
    sys_streams,  \* the process-wide sys.stdin, sys.stdout, sys.stderr
    old_streams,  \* _run_server's old_stdin, old_stdout, old_stderr
    original_streams, \* execute_mcp_call's original_stdout, original_stderr
    request_channel,  \* lines written to stdin_write_file the worker has not
                      \* read, each the number of the message it carries
    reply_channel,    \* lines written to stdout_write_file the host has not
                      \* read, each with the message it answers (0: none)
    owed,         \* the requests the worker has read and not answered
    sent,         \* how many messages the host has written
    pending,      \* the messages whose send_request has not ended
    returned,     \* history: the line each send_request returned
    emitted,      \* how many lines the worker has written on its own
    stdin_closed, \* stop() has closed the request channel's write end
    spans,        \* one Tracer: self.spans
    end_time,     \* that Tracer's end_time, 0 for None
    trace_additional_data, \* that Tracer's trace_additional_data
    snapshots,    \* history: every trace get_trace returned
    tracer_last,  \* history: the last call on that Tracer
    tracer_ops,   \* how many calls that Tracer has taken
    merged_children, \* how many child spans were handed to its merges
    current_parent, \* the Tracer's parent, given at construction
    error_in,     \* the value format_error is called with
    formatted,    \* what format_error returned for it, and for that again
    uv_args,      \* the args parse_mcp_server_params is called with
    uv_result     \* how that call ended

bridgeVars ==
    <<host, worker, sys_streams, old_streams, original_streams,
      request_channel, reply_channel, owed, sent, pending, returned, emitted,
      stdin_closed>>

tracerVars ==
    <<spans, end_time, trace_additional_data, snapshots, tracer_last,
      tracer_ops, merged_children, current_parent>>

errorVars == <<error_in, formatted>>

resolverVars == <<uv_args, uv_result>>

unitVars == <<bridgeVars, tracerVars, errorVars, resolverVars>>

vars == <<pc, locked, waiters, woken, holder, acquired, released,
          req, exc, retval, info, events, handle, outcome,
          mcp_caller, written, created, started,
          is_connected, server_info, server, servers, last, unitVars,
          tracer, lingering>>

lockVars == <<locked, waiters, woken, holder, acquired, released>>
frameVars == <<req, exc, retval, info, events>>
ownerVars == <<mcp_caller, written, created, started>>
callerVars == <<is_connected, server_info, server, servers, last>>
dispatcherVars ==
    <<pc, locked, waiters, woken, holder, acquired, released,
      req, exc, retval, info, events, handle, outcome,
      mcp_caller, written, created, started, tracer, lingering>>

\* The history before the first call of the McpCaller's interface.
NoCall ==
    [op |-> "none", method |-> "", outcome |-> "none", code |-> 0,
     was_connected |-> FALSE, launched |-> FALSE, wrote |-> <<>>,
     prev |-> "none", changed |-> FALSE]

\* McpCaller.__init__
CallerInit ==
    /\ is_connected = FALSE
    /\ server_info = "None"
    /\ server = 0
    /\ servers = <<>>
    /\ last = NoCall

\* The standard streams the process starts with.
OwnStreams == [stdin |-> "stdin", stdout |-> "stdout", stderr |-> "stderr"]

\* A McpCaller just constructed, and no SimpleThreadedMcpServer yet.
BridgeInit ==
    /\ host = "new"
    /\ worker = "unstarted"
    /\ sys_streams = OwnStreams
    /\ old_streams = OwnStreams
    /\ original_streams = [stdout |-> "stdout", stderr |-> "stderr"]
    /\ request_channel = <<>>
    /\ reply_channel = <<>>
    /\ owed = {}
    /\ sent = 0
    /\ pending = {}
    /\ returned = <<>>
    /\ emitted = 0
    /\ stdin_closed = FALSE

\* self.trace_additional_data = None
NoData == [is_none |-> TRUE, child_traces |-> 0]

NoTracerCall ==
    [op |-> "none", before |-> <<>>, child |-> [shape |-> "none", spans |-> <<>>],
     is_success |-> TRUE, raised |-> FALSE]

\* Tracer.__init__(trace_id, parent)
TracerNew(parent) ==
    /\ current_parent = parent
    /\ spans = <<>>
    /\ end_time = 0
    /\ trace_additional_data = NoData
    /\ snapshots = <<>>
    /\ tracer_last = NoTracerCall
    /\ tracer_ops = 0
    /\ merged_children = 0

\* Tracer.__init__ as rpc_handler calls it: Tracer(trace_id)
TracerInit == TracerNew(Null)

\* No call of rpc_handler yet, _rpc_lock free.
HandlerInit ==
    /\ mcp_caller = [c \in Calls |-> 0]
    /\ tracer = [c \in Calls |-> <<>>]
    /\ lingering = 0
    /\ written = [c \in Calls |-> <<>>]
    /\ created = [c \in Calls |-> 0]
    /\ started = [c \in Calls |-> 0]
    /\ pc = [c \in Calls |-> "idle"]
    /\ locked = FALSE
    /\ waiters = <<>>
    /\ woken = {}
    /\ holder = 0
    /\ acquired = [c \in Calls |-> 0]
    /\ released = [c \in Calls |-> 0]
    /\ req = [c \in Calls |-> NoRequest]
    /\ exc = [c \in Calls |-> NoExc]
    /\ retval = [c \in Calls |-> NoValue]
    /\ info = [c \in Calls |-> "None"]
    /\ events = [c \in Calls |-> {}]
    /\ handle = [c \in Calls |-> "None"]
    /\ outcome = [c \in Calls |-> "pending"]

\* Nothing handed to format_error.
ErrorIdle ==
    /\ error_in = NoExc
    /\ formatted = <<>>

\* parse_mcp_server_params not called.
ResolverIdle ==
    /\ uv_args = <<>>
    /\ uv_result = [outcome |-> "none"]

Init ==
    /\ HandlerInit
    /\ CallerInit
    /\ BridgeInit
    /\ TracerInit
    /\ ErrorIdle
    /\ ResolverIdle

\* --------------------------------------------------------- admission lock
\* The handler body entered without waiting for the lock.
InvokeWithoutLock(c) ==
    /\ pc[c] = "idle"
    /\ locked' = TRUE
    /\ holder' = c
    /\ acquired' = [acquired EXCEPT ![c] = @ + 1]
    /\ pc' = [pc EXCEPT ![c] = "admitted"]
    /\ UNCHANGED <<waiters, woken, released, frameVars, handle, outcome>>
    /\ UNCHANGED <<ownerVars, callerVars, unitVars, lingering, tracer>>

\* asyncio.Lock.acquire, entered by "await _rpc_lock.acquire()": the fast
\* path takes a free lock nobody waits for; otherwise the call joins the FIFO.
Invoke(c) ==
    /\ pc[c] = "idle"
    /\ IF ~locked /\ waiters = <<>>
       THEN /\ locked' = TRUE
            /\ holder' = c
            /\ acquired' = [acquired EXCEPT ![c] = @ + 1]
            /\ pc' = [pc EXCEPT ![c] = "admitted"]
            /\ UNCHANGED waiters
       ELSE /\ waiters' = Append(waiters, c)
            /\ pc' = [pc EXCEPT ![c] = "waiting"]
            /\ UNCHANGED <<locked, holder, acquired>>
    /\ UNCHANGED <<woken, released, frameVars, handle, outcome>>
    /\ UNCHANGED <<ownerVars, callerVars, unitVars, lingering, tracer>>

\* asyncio.Lock.acquire resumed: the waiter's future is done; it leaves the
\* FIFO and sets _locked.
Resume(c) ==
    /\ pc[c] = "waiting"
    /\ c \in woken
    /\ waiters' = SelectSeq(waiters, LAMBDA w : w # c)
    /\ woken' = woken \ {c}
    /\ locked' = TRUE
    /\ holder' = c
    /\ acquired' = [acquired EXCEPT ![c] = @ + 1]
    /\ pc' = [pc EXCEPT ![c] = "admitted"]
    /\ UNCHANGED <<released, frameVars, handle, outcome>>
    /\ UNCHANGED <<ownerVars, callerVars, unitVars, lingering, tracer>>

\* ------------------------------------------------------------ dispatcher
\* Lines 160-181: the _meta validation; NoExc when meta_params was built.
validate_meta(r) ==
    IF r.data = "None" THEN CustomError(INVALID_REQUEST, MetaMessage)
    ELSE IF r.data = "NonDict"
    THEN Exception("AttributeError", "object has no attribute 'get'")
    ELSE IF r.params = "Absent" THEN CustomError(INVALID_REQUEST, MetaMessage)
    ELSE IF r.params = "NonDict"
    THEN Exception("AttributeError", "object has no attribute 'get'")
    ELSE CASE r.meta = "Absent" -> CustomError(INVALID_REQUEST, MetaMessage)
           [] r.meta = "NonDict" ->
                Exception("TypeError", "argument after ** must be a mapping")
           [] r.meta = "Invalid" -> CustomError(INVALID_REQUEST, MetaMessage)
           [] r.meta = "Valid" -> NoExc

\* The notification test left out.
NeverNotification(r) == FALSE

\* "id" not in request_data
IsNotification(r) == ~HasId(r)

\* The order of the tests on handler with the notification test first.
classify_id_first(r) ==
    LET handler == Lookup(r.method) IN
    IF r.method = Unhashable THEN "unhashable"
    ELSE IF handler = "None" THEN "unknown"
    ELSE IF IsNotification(r) THEN "notification"
    ELSE IF handler = "Local" THEN "local"
    ELSE IF handler = "Rejected" THEN "rejected"
    ELSE "forward"

\* Lines 183-218, the order of the tests on handler: handlers_map.get (a
\* TypeError for an unhashable key), missing key, callable, False, True
\* without an id, True.
classify(r) ==
    LET handler == Lookup(r.method) IN
    IF r.method = Unhashable THEN "unhashable"
    ELSE IF handler = "None" THEN "unknown"
    ELSE IF handler = "Local" THEN "local"
    ELSE IF handler = "Rejected" THEN "rejected"
    ELSE IF IsNotification(r) THEN "notification"
    ELSE "forward"

\* The Local handlers' result.get("result"): None for ping and
\* notifications/initialized, {"_meta": {"traceLevel": ...}} for logging/setLevel.
local_result(method) ==
    IF method = "logging/setLevel"
    THEN DictResult({<<"_meta", "traceLevel">>})
    ELSE NoResult

\* meta_params.server.command.startswith("uv")
accepts_command(command) == StartsWith(command, "uv")

\* What one send_request exchange with the worker ends in.
\*   "result"   a reply line with a result object
\*   "nulls"    a reply line with a result object that has a null member
\*   "empty"    a reply line whose result is absent, null or {}
\*   "scalar"   a reply line whose result is a truthy value that is no object
\*   "error"    a reply line with an error member
\*   "timeout"  select() expired: TimeoutError
\*   "eof"      readline() returned "": RuntimeError
\*   "garbage"  json.loads failed: JSONDecodeError
Replies ==
    {"result", "nulls", "empty", "scalar", "error", "timeout", "eof", "garbage"}

\* The exception send_request raises for a reply that is no JSON line.
send_request_error(reply) ==
    CASE reply = "timeout" ->
           Exception("TimeoutError", "Request timed out after 30.0 seconds")
      [] reply = "eof" -> Exception("RuntimeError", "No response from MCP server")
      [] reply = "garbage" -> Exception("JSONDecodeError", "Expecting value")

\* Lines 150-181: the frame is set up, handler_input.data is read for the
\* first time (as request r) and _meta is validated.
Validate(c) ==
    /\ pc[c] = "admitted"
    /\ \E r \in Requests :
         /\ req' = [req EXCEPT ![c] = r]
         /\ IF validate_meta(r) = NoExc
            THEN /\ pc' = [pc EXCEPT ![c] = "classify"]
                 /\ UNCHANGED exc
            ELSE /\ exc' = [exc EXCEPT ![c] = validate_meta(r)]
                 /\ pc' = [pc EXCEPT ![c] = "except"]
    /\ UNCHANGED <<lockVars, retval, info, events, handle, outcome>>
    /\ UNCHANGED <<ownerVars, callerVars, unitVars, lingering>>
    /\ tracer' = [tracer EXCEPT ![c] = record_span(<<>>, "inputValidation", Null)]

\* Lines 183-218: the method table.
Classify(c) ==
    /\ pc[c] = "classify"
    /\ LET r == req[c]
           k == classify(r) IN
       CASE k = "local" ->
              /\ retval' = [retval EXCEPT ![c] =
                     generate_jsonrpc_response(r, local_result(r.method), NoValue)]
              /\ pc' = [pc EXCEPT ![c] = "closing"]
              /\ UNCHANGED exc
         [] k = "forward" ->
              /\ pc' = [pc EXCEPT ![c] = "extract"]
              /\ UNCHANGED <<exc, retval>>
         [] k = "notification" ->
              /\ exc' = [exc EXCEPT ![c] =
                     CustomError(METHOD_NOT_FOUND, NotificationMessage(r.method))]
              /\ pc' = [pc EXCEPT ![c] = "except"]
              /\ UNCHANGED retval
         [] k = "unhashable" ->
              /\ exc' = [exc EXCEPT ![c] = Exception("TypeError", "unhashable type")]
              /\ pc' = [pc EXCEPT ![c] = "except"]
              /\ UNCHANGED retval
         [] OTHER ->
              /\ exc' = [exc EXCEPT ![c] =
                     CustomError(METHOD_NOT_FOUND, SupportedMessage)]
              /\ pc' = [pc EXCEPT ![c] = "except"]
              /\ UNCHANGED retval
    /\ UNCHANGED <<lockVars, req, info, events, handle, outcome>>
    /\ UNCHANGED <<ownerVars, callerVars, unitVars, lingering>>
    /\ tracer' = [tracer EXCEPT ![c] =
           IF classify(req[c]) = "local"
           THEN response_trace(record_span(@, "outletHandler", Null), req[c], NoValue)
           ELSE @]

\* ------------------------------------------------------ ArgumentResolver
\* ch in s
HasChar(s, ch) == \E i \in 1..Len(s) : SubSeq(s, i, i) = ch

\* s.split(ch, 1) of an s that has ch: around its first ch
SplitFirst(s, ch) ==
    LET i == CHOOSE k \in 1..Len(s) :
                 /\ SubSeq(s, k, k) = ch
                 /\ \A j \in 1..(k - 1) : SubSeq(s, j, j) # ch
    IN  <<SubSeq(s, 1, i - 1), SubSeq(s, i + 1, Len(s))>>

\* s.rsplit(ch, 1) of an s that has ch: around its last ch
RSplit(s, ch) ==
    LET i == CHOOSE k \in 1..Len(s) :
                 /\ SubSeq(s, k, k) = ch
                 /\ \A j \in (k + 1)..Len(s) : SubSeq(s, j, j) # ch
    IN  <<SubSeq(s, 1, i - 1), SubSeq(s, i + 1, Len(s))>>

\* s.split(ch)
RECURSIVE Split(_, _)
Split(s, ch) ==
    IF HasChar(s, ch)
    THEN <<SplitFirst(s, ch)[1]>> \o Split(SplitFirst(s, ch)[2], ch)
    ELSE <<s>>

\* s.replace("-", "_")
RECURSIVE Underscored(_)
Underscored(s) ==
    IF s = "" THEN ""
    ELSE (IF SubSeq(s, 1, 1) = "-" THEN "_" ELSE SubSeq(s, 1, 1))
             \o Underscored(SubSeq(s, 2, Len(s)))

\* not x, of a string or None
Falsy(x) == x \in {Null, ""}

\* The parse state before the loop (lines 92-97).
NoParams ==
    [package_name |-> Null, entry_point |-> Null, source_path |-> Null,
     with_deps |-> <<>>, index_url |-> Null, extra_index_urls |-> <<>>]

\* The argument loop (lines 99-130), from position i on.
RECURSIVE ParseArgs(_, _, _)
ParseArgs(args, i, st) ==
    IF i > Len(args) THEN st
    ELSE LET arg == args[i]
             more == i + 1 <= Len(args)
         IN
         CASE arg = "--from" /\ more ->
                ParseArgs(args, i + 2, [st EXCEPT !.source_path = args[i + 1]])
           [] arg = "--with" /\ more ->
                ParseArgs(args, i + 2,
                          [st EXCEPT !.with_deps = @ \o Split(args[i + 1], ",")])
           [] arg = "--index-url" /\ more ->
                ParseArgs(args, i + 2, [st EXCEPT !.index_url = args[i + 1]])
           [] arg = "--extra-index-url" /\ more ->
                ParseArgs(args, i + 2,
                          [st EXCEPT !.extra_index_urls = Append(@, args[i + 1])])
           [] OTHER ->
                IF StartsWith(arg, "--")
                THEN IF more /\ ~StartsWith(args[i + 1], "--")
                     THEN ParseArgs(args, i + 2, st)
                     ELSE ParseArgs(args, i + 1, st)
                ELSE IF Falsy(st.package_name)
                THEN IF HasChar(arg, ":")
                     THEN ParseArgs(args, i + 1,
                              [st EXCEPT !.package_name = SplitFirst(arg, ":")[1],
                                         !.entry_point = SplitFirst(arg, ":")[2]])
                     ELSE ParseArgs(args, i + 1, [st EXCEPT !.package_name = arg])
                ELSE ParseArgs(args, i + 1, st)

\* The console scripts with a ':' in their target, in the dictionary's order.
RECURSIVE Targets(_)
Targets(console_scripts) ==
    IF console_scripts = <<>> THEN <<>>
    ELSE (IF HasChar(Head(console_scripts)[2], ":")
          THEN <<Head(console_scripts)[2]>> ELSE <<>>)
             \o Targets(Tail(console_scripts))

\* The guess list led by <module>.main:main.
common_patterns_main_first(default_module) ==
    << default_module \o ".main:main", default_module \o ":main",
       default_module \o ".cli:main", default_module \o ".server:main",
       default_module \o ".__main__:main" >>

\* common_patterns, lines 361-367
common_patterns(default_module) ==
    << default_module \o ":main", default_module \o ".main:main",
       default_module \o ".cli:main", default_module \o ".server:main",
       default_module \o ".__main__:main" >>

\* resolve_entry_point with the last ':' never looked for.
resolve_entry_point_first_colon(package_name, requested_entry, console_scripts) ==
    LET default_module == Underscored(package_name)
        own == SelectSeq(console_scripts, LAMBDA cs : cs[1] = package_name)
        targets == Targets(own) \o Targets(console_scripts)
    IN
    IF ~Falsy(requested_entry)
    THEN IF HasChar(requested_entry, ".") /\ HasChar(requested_entry, ":")
         THEN SplitFirst(requested_entry, ":")
         ELSE IF HasChar(requested_entry, ":")
         THEN LET parts == SplitFirst(requested_entry, ":") IN
              <<IF parts[1] = "" THEN default_module ELSE parts[1], parts[2]>>
         ELSE <<default_module, requested_entry>>
    ELSE IF targets # <<>>
    THEN RSplit(targets[1], ":")
    ELSE SplitFirst(common_patterns(default_module)[1], ":")

\* resolve_entry_point(package_name, requested_entry, entry_points, _):
\* console_scripts is entry_points.get("console_scripts", {}) as the
\* sequence of its (name, target) items.
resolve_entry_point(package_name, requested_entry, console_scripts) ==
    LET default_module == Underscored(package_name)
        own == SelectSeq(console_scripts, LAMBDA cs : cs[1] = package_name)
        targets == Targets(own) \o Targets(console_scripts)
    IN
    IF ~Falsy(requested_entry)
    THEN IF HasChar(requested_entry, ".") /\ HasChar(requested_entry, ":")
         THEN RSplit(requested_entry, ":")
         ELSE IF HasChar(requested_entry, ":")
         THEN LET parts == SplitFirst(requested_entry, ":") IN
              <<IF parts[1] = "" THEN default_module ELSE parts[1], parts[2]>>
         ELSE <<default_module, requested_entry>>
    ELSE IF targets # <<>>
    THEN RSplit(targets[1], ":")
    ELSE SplitFirst(common_patterns(default_module)[1], ":")

\* What uv pip inspect may report as console scripts of the package.
ConsoleScripts ==
    { <<>>,
      << <<"pkg", "pkg.cli:run">> >>,
      << <<"tool", "tool.app:start">>, <<"pkg", "pkg.cli:run">> >>,
      << <<"pkg", "run">>, <<"my-pkg", "my_pkg.server:serve">> >> }

\* A missing package name let through.
MissingPackageNever(st) == FALSE

\* if not package_name, line 132
MissingPackage(st) == Falsy(st.package_name)

\* What uv is asked to install first (lines 156-170): nothing for a package
\* that is importable already, else the --from source or the package name.
MainInstall(st, present) ==
    IF present THEN <<>>
    ELSE <<IF st.source_path # Null THEN st.source_path ELSE st.package_name>>

\* What uv pip inspect gives as entry_points["console_scripts"]: nothing
\* when the command fails or its output has no entry_points.
Inspections == ConsoleScripts

\* parse_mcp_server_params(args), as the set of ways the call can end.
\*   present, deps_present  _is_package_installed of the package, of the
\*                          --with dependencies
\*   advertised             the console scripts importlib.metadata finds for
\*                          the package (lines 219-230), dropped at line 261
\*   console_scripts        those of uv pip inspect (lines 261-281)
\*   importable             whether module_path:function_name can be loaded,
\*                          which nothing here looks at
parse_mcp_server_params(args) ==
    LET st == ParseArgs(args, 1, NoParams) IN
    IF MissingPackage(st)
    THEN {[outcome |-> "raised", error |-> "ValueError", installs |-> <<>>]}
    ELSE
      {[outcome |-> "raised", error |-> "RuntimeError",
        installs |-> MainInstall(st, FALSE)]}
      \cup
      {[outcome |-> "raised", error |-> "CalledProcessError",
        installs |-> MainInstall(st, present) \o <<st.with_deps[1]>>] :
           present \in {b \in BOOLEAN : st.with_deps # <<>>}}
      \cup
      {[outcome |-> "returned",
        package_name |-> st.package_name,
        module_path |-> resolve_entry_point(st.package_name, st.entry_point,
                                            console_scripts)[1],
        function_name |-> resolve_entry_point(st.package_name, st.entry_point,
                                              console_scripts)[2],
        entry_point |-> st.entry_point,
        source_path |-> st.source_path,
        with_deps |-> st.with_deps,
        installs |-> MainInstall(st, present)
                        \o (IF deps_present THEN <<>> ELSE st.with_deps),
        advertised |-> advertised,
        console_scripts |-> console_scripts,
        importable |-> importable] :
           present \in BOOLEAN, deps_present \in BOOLEAN,
           advertised \in ConsoleScripts, console_scripts \in Inspections,
           importable \in BOOLEAN}

\* The meta_params.server.args a forwarded request may carry.
ServerArgs ==
    { <<>>, <<"--from", "git+https://x", "--quiet">>, <<"pkg">> }

\* What the call remembers of parse_mcp_server_params(args): the args it
\* was given, whether it went on to the installs, and how it ended.
ResolverEvents(args, res) ==
    {"resolver", "args:" \o Join(args, " ")}
        \cup (IF res.outcome = "raised" /\ res.error = "ValueError"
              THEN {} ELSE {"install"})
        \cup (IF res.outcome = "returned" THEN {"resolved"} ELSE {"unresolved"})

\* The ArgumentResolver with a failed install logged and not raised.
ExtractIgnoringFailure(c) ==
    /\ pc[c] = "extract"
    /\ IF accepts_command(req[c].command)
       THEN \E args \in ServerArgs : \E res \in parse_mcp_server_params(args) :
                 /\ events' = [events EXCEPT ![c] = @ \cup ResolverEvents(args, res)]
                 /\ pc' = [pc EXCEPT ![c] = "create"]
                 /\ UNCHANGED exc
       ELSE /\ exc' = [exc EXCEPT ![c] =
                     CustomError(INVALID_REQUEST, CommandMessage)]
            /\ pc' = [pc EXCEPT ![c] = "except"]
            /\ UNCHANGED events
    /\ UNCHANGED <<lockVars, req, retval, info, handle, outcome>>
    /\ UNCHANGED <<ownerVars, callerVars, unitVars, lingering>>
    /\ tracer' = [tracer EXCEPT ![c] =
           record_span(@, "extractingServerConfig", Null)]

\* Lines 219-226: the launch command test and the ArgumentResolver.
Extract(c) ==
    /\ pc[c] = "extract"
    /\ IF accepts_command(req[c].command)
       THEN \E args \in ServerArgs : \E res \in parse_mcp_server_params(args) :
                 IF res.outcome = "returned"
                 THEN /\ events' = [events EXCEPT ![c] =
                             @ \cup ResolverEvents(args, res)]
                      /\ pc' = [pc EXCEPT ![c] = "create"]
                      /\ UNCHANGED exc
                 ELSE /\ events' = [events EXCEPT ![c] =
                             @ \cup ResolverEvents(args, res)]
                      /\ exc' = [exc EXCEPT ![c] =
                             Exception(res.error, "resolution failed")]
                      /\ pc' = [pc EXCEPT ![c] = "except"]
       ELSE /\ exc' = [exc EXCEPT ![c] =
                     CustomError(INVALID_REQUEST, CommandMessage)]
            /\ pc' = [pc EXCEPT ![c] = "except"]
            /\ UNCHANGED events
    /\ UNCHANGED <<lockVars, req, retval, info, handle, outcome>>
    /\ UNCHANGED <<ownerVars, callerVars, unitVars, lingering>>
    /\ tracer' = [tracer EXCEPT ![c] =
           record_span(@, "extractingServerConfig", Null)]

\* ---------------------------------------------------------- worker bridge
\* stdin_write_file.write(json_data) by call c on the request channel of
\* WorkerHandle h, with the state the handle is in at the write
Write(h, c, line) ==
    [written EXCEPT ![c] =
         Append(@, [handle |-> h, line |-> line, to |-> handle[h]])]

\* A module-level McpCaller, taken again by the next call instead of a new
\* one.
CreateCallerPooled(c) ==
    /\ pc[c] = "create"
    /\ LET pool == { d \in Calls \ {c} : handle[d] # "None" } IN
       IF pool # {}
       THEN /\ mcp_caller' = [mcp_caller EXCEPT ![c] = CHOOSE d \in pool : TRUE]
            /\ UNCHANGED <<handle, created>>
       ELSE /\ mcp_caller' = [mcp_caller EXCEPT ![c] = c]
            /\ handle' = [handle EXCEPT ![c] = "Created"]
            /\ created' = [created EXCEPT ![c] = @ + 1]
    /\ events' = [events EXCEPT ![c] = @ \cup {"caller"}]
    /\ pc' = [pc EXCEPT ![c] = "launch"]
    /\ UNCHANGED <<lockVars, req, exc, retval, info, outcome>>
    /\ UNCHANGED <<written, started, callerVars, unitVars, lingering>>
    /\ tracer' = [tracer EXCEPT ![c] = record_span(@, "connectToServer", Null)]

\* Lines 227-238: mcp_caller = McpCaller(McpCallerConfiguration(...)), a new
\* object at every call.
CreateCaller(c) ==
    /\ pc[c] = "create"
    /\ mcp_caller' = [mcp_caller EXCEPT ![c] = c]
    /\ handle' = [handle EXCEPT ![c] = "Created"]
    /\ created' = [created EXCEPT ![c] = @ + 1]
    /\ events' = [events EXCEPT ![c] = @ \cup {"caller"}]
    /\ pc' = [pc EXCEPT ![c] = "launch"]
    /\ UNCHANGED <<lockVars, req, exc, retval, info, outcome>>
    /\ UNCHANGED <<written, started, callerVars, unitVars, lingering>>
    /\ tracer' = [tracer EXCEPT ![c] = record_span(@, "connectToServer", Null)]

\* McpCaller.connect, lines 215-226: the worker thread is started.
Launch(c) ==
    /\ pc[c] = "launch"
    /\ handle' = [handle EXCEPT ![mcp_caller[c]] = "Starting"]
    /\ started' = [started EXCEPT ![c] = @ + 1]
    /\ events' = [events EXCEPT ![c] = @ \cup {"launch"}]
    /\ pc' = [pc EXCEPT ![c] = "handshake"]
    /\ UNCHANGED <<lockVars, req, exc, retval, info, outcome>>
    /\ UNCHANGED <<mcp_caller, written, created, callerVars, unitVars, lingering, tracer>>

\* SimpleThreadedMcpServer.stop(): the shutdown flag is set, the request
\* channel's write end is closed, the thread is joined for 2 s, the other
\* channel ends are closed; what goes wrong in between is swallowed.
stop(h) == "Closed"

\* stop(), lines 98-99: join(timeout=2.0) returns when the thread has ended,
\* or after two seconds with the thread still running.
JoinThread == \E ended \in BOOLEAN :
            lingering' = IF ended THEN lingering ELSE lingering + 1

\* A close() that leaves the server running.
close_nothing(h) == h

\* McpCaller.close(): a started server is stopped; _is_connected and
\* server_info are cleared.
close(h) == IF h \in {"Starting", "Connected"} THEN stop(h) ELSE h

\* self.server_info = init_response.get("result", {})
handshake_info(reply) ==
    CASE reply \in {"result", "nulls"} -> "Info"
      [] reply = "empty" -> "Empty"
      [] reply = "scalar" -> "Scalar"

\* The replies send_request returns as a response object.
IsResponseLine(reply) == reply \in {"result", "nulls", "empty", "scalar", "error"}

\* _run_server, lines 139-195, up to the first reply: the entry point
\*   "serves"  is loaded and runs, reading requests
\*   "raises"  cannot be imported, is no attribute of the module, or raises
\*             an Exception before it writes a line
\*   "exits"   raises what is no Exception (SystemExit from sys.exit(),
\*             KeyboardInterrupt) before it writes a line
EntryOutcomes == {"serves", "raises", "exits"}

\* What send_request can return or raise for the initialize request: the
\* except clause of line 181 writes the error line of lines 187-193 for an
\* Exception; what is no Exception ends the thread with nothing written and
\* both channels open, and select() expires.
HandshakeReplies(entry) ==
    CASE entry = "serves" -> Replies
      [] entry = "raises" -> {"error"}
      [] entry = "exits" -> {"timeout"}

EntryEvents(entry) == IF entry = "serves" THEN {} ELSE {"entry:" \o entry}

\* McpCaller.connect, lines 228-256 and 276-280: the initialize exchange.  A
\* failure stops the server and leaves connect() as format_error(e).
Handshake(c) ==
    /\ pc[c] = "handshake"
    /\ written' = Write(mcp_caller[c], c, "initialize")
    /\ \E entry \in EntryOutcomes : \E reply \in HandshakeReplies(entry) :
         IF reply \in {"result", "nulls", "empty", "scalar"}
         THEN /\ info' = [info EXCEPT ![c] = handshake_info(reply)]
              /\ events' = [events EXCEPT ![c] = @ \cup {"write"}]
              /\ pc' = [pc EXCEPT ![c] = "notify"]
              /\ UNCHANGED <<exc, handle, lingering>>
         ELSE /\ handle' = [handle EXCEPT ![mcp_caller[c]] = stop(@)]
              /\ JoinThread
              /\ events' = [events EXCEPT ![c] =
                     @ \cup {"write", "initialize:" \o reply}
                       \cup EntryEvents(entry)]
              /\ exc' = [exc EXCEPT ![c] =
                     IF reply = "error"
                     THEN CustomError(INTERNAL_ERROR,
                                      "Initialize failed: " \o "worker error")
                     ELSE format_error(send_request_error(reply))]
              /\ pc' = [pc EXCEPT ![c] = "except"]
              /\ UNCHANGED info
    /\ UNCHANGED <<lockVars, req, retval, outcome>>
    /\ UNCHANGED <<mcp_caller, created, started, callerVars, unitVars, tracer>>

\* The initialized notification with its failure leaving connect().
NotifySurfacing(c) ==
    /\ pc[c] = "notify"
    /\ written' = Write(mcp_caller[c], c, "notifications/initialized")
    /\ \E reply \in Replies :
         IF IsResponseLine(reply)
         THEN /\ events' = [events EXCEPT ![c] = @ \cup {"connected"}]
              /\ handle' = [handle EXCEPT ![mcp_caller[c]] = "Connected"]
              /\ pc' = [pc EXCEPT ![c] = "execute"]
              /\ UNCHANGED <<exc, lingering>>
         ELSE /\ events' = [events EXCEPT ![c] = @ \cup {"notify failed"}]
              /\ handle' = [handle EXCEPT ![mcp_caller[c]] = stop(@)]
              /\ JoinThread
              /\ exc' = [exc EXCEPT ![c] = format_error(send_request_error(reply))]
              /\ pc' = [pc EXCEPT ![c] = "except"]
    /\ UNCHANGED <<lockVars, req, retval, info, outcome>>
    /\ UNCHANGED <<mcp_caller, created, started, callerVars, unitVars, tracer>>

\* McpCaller.connect, lines 258-274: the initialized notification is written
\* and a reply awaited for 10 microseconds; whatever send_request raises is
\* swallowed, then _is_connected = True and connect() returns.
Notify(c) ==
    /\ pc[c] = "notify"
    /\ written' = Write(mcp_caller[c], c, "notifications/initialized")
    /\ \E reply \in Replies :
         events' = [events EXCEPT ![c] =
             @ \cup {"connected"}
               \cup (IF IsResponseLine(reply) THEN {} ELSE {"notify failed"})]
    /\ handle' = [handle EXCEPT ![mcp_caller[c]] = "Connected"]
    /\ pc' = [pc EXCEPT ![c] = "execute"]
    /\ UNCHANGED <<lockVars, req, exc, retval, info, outcome>>
    /\ UNCHANGED <<mcp_caller, created, started, callerVars, unitVars, lingering, tracer>>

\* _convert_to_dict on an object: the members whose value is None are left
\* out.
convert_to_dict(members) == { m \in members : m[2] # "null" }

\* The result object of a conforming worker's initialize reply.
ServerInfo == {<<"protocolVersion", "2025-03-26">>, <<"instructions", "null">>}

\* _convert_to_dict(self.server_info) as a result
info_result(i) ==
    IF i = "Scalar" THEN NonDictResult
    ELSE DictResult(convert_to_dict(ServerInfo))

\* The result objects of the worker's replies: {"ok": true}, and one with a
\* null member.
WorkerResult == {<<"ok", "true">>}
WorkerResultNulls == {<<"ok", "true">>, <<"cursor", "null">>}

\* The error object of a worker's reply.
WorkerError == {<<"code", "-32000">>, <<"message", "worker error">>}

\* The result execute_mcp_call returns for a reply line without error:
\* _convert_to_dict(response.get("result")).
reply_result(reply) ==
    CASE reply = "result" -> DictResult(convert_to_dict(WorkerResult))
      [] reply = "nulls" -> DictResult(convert_to_dict(WorkerResultNulls))
      [] reply = "empty" -> NoResult
      [] reply = "scalar" -> NonDictResult

\* Lines 241-245: the return statement with execute_mcp_call's result; an
\* exception of generate_jsonrpc_response is raised inside the try block.
ReturnResult(c, result) ==
    LET v == generate_jsonrpc_response(req[c], result, NoValue) IN
    IF IsRaised(v)
    THEN /\ exc' = [exc EXCEPT ![c] = Exception(v.raised, "not a mapping")]
         /\ pc' = [pc EXCEPT ![c] = "except"]
         /\ UNCHANGED retval
    ELSE /\ retval' = [retval EXCEPT ![c] = v]
         /\ pc' = [pc EXCEPT ![c] = "closing"]
         /\ UNCHANGED exc

\* Line 241 and, in the return statement, generate_jsonrpc_response's
\* get_trace, which runs before the response dict is built.
TraceResult(c) ==
    tracer' = [tracer EXCEPT ![c] =
        response_trace(record_span(@, "executeMcpCall", Null), req[c], NoValue)]

RaiseFrom(c, e) ==
    /\ exc' = [exc EXCEPT ![c] = e]
    /\ pc' = [pc EXCEPT ![c] = "except"]
    /\ tracer' = [tracer EXCEPT ![c] = record_span(@, "executeMcpCall", Null)]
    /\ UNCHANGED retval

\* Lines 241-245 with McpCaller.execute_mcp_call: initialize is answered from
\* the cached handshake result, another method is sent to the worker.
Execute(c) ==
    /\ pc[c] = "execute"
    /\ IF req[c].method = "initialize"
       THEN /\ IF info[c] \in {"Info", "Scalar"}
               THEN ReturnResult(c, info_result(info[c])) /\ TraceResult(c)
               ELSE RaiseFrom(c, CustomError(INVALID_REQUEST, "Please connect first"))
            /\ UNCHANGED <<events, written>>
       ELSE /\ written' = Write(mcp_caller[c], c, "request")
            /\ \E reply \in Replies :
                 /\ events' = [events EXCEPT ![c] =
                        @ \cup {"write", "execute:" \o reply}]
                 /\ CASE reply \in {"result", "nulls", "empty", "scalar"} ->
                           ReturnResult(c, reply_result(reply)) /\ TraceResult(c)
                      [] reply = "error" ->
                           RaiseFrom(c, CustomErrorData(INTERNAL_ERROR,
                                                        "worker error",
                                                        WorkerError))
                      [] OTHER -> RaiseFrom(c, send_request_error(reply))
    /\ UNCHANGED <<lockVars, req, info, handle, outcome>>
    /\ UNCHANGED <<mcp_caller, created, started, callerVars, unitVars, lingering>>

\* The line a call's next send_request writes.
NextLine(c) ==
    CASE pc[c] = "handshake" -> "initialize"
      [] pc[c] = "notify" -> "notifications/initialized"
      [] pc[c] = "execute" -> "request"

\* SimpleThreadedMcpServer.send_request, lines 119-129, not returning:
\* flush() waits for room in a request channel the worker does not read, or
\* select() reports a reply that has no line end and readline() waits for
\* the rest.  Neither wait has a bound, and the await on the executor's
\* future in connect() or execute_mcp_call() never completes.
Block(c) ==
    /\ pc[c] \in {"handshake", "notify", "execute"}
    /\ pc[c] = "execute" => req[c].method # "initialize"
    /\ written' = Write(mcp_caller[c], c, NextLine(c))
    /\ events' = [events EXCEPT ![c] = @ \cup {"write", "blocked"}]
    /\ pc' = [pc EXCEPT ![c] = "blocked"]
    /\ UNCHANGED <<lockVars, req, exc, retval, info, handle, outcome>>
    /\ UNCHANGED <<mcp_caller, created, started, callerVars, unitVars, lingering>>
    /\ tracer' = [tracer EXCEPT ![c] =
           IF pc[c] = "execute" THEN record_span(@, "executeMcpCall", Null) ELSE @]

\* Lines 247-269: both except clauses build the error response from
\* request_data; what generate_jsonrpc_response raises there leaves the handler.
Except(c) ==
    /\ pc[c] = "except"
    /\ retval' = [retval EXCEPT ![c] =
           generate_jsonrpc_response(req[c], NoResult,
                                     to_response(format_error(exc[c])))]
    /\ exc' = [exc EXCEPT ![c] = NoExc]
    /\ pc' = [pc EXCEPT ![c] = "closing"]
    /\ UNCHANGED <<lockVars, req, info, events, handle, outcome>>
    /\ UNCHANGED <<ownerVars, callerVars, unitVars, lingering>>
    /\ tracer' = [tracer EXCEPT ![c] = response_trace(@, req[c], exc[c])]

\* Lines 270-273: if mcp_caller: await mcp_caller.close()
Close(c) ==
    /\ pc[c] = "closing"
    /\ IF mcp_caller[c] # 0
       THEN handle' = [handle EXCEPT ![mcp_caller[c]] = close(@)]
       ELSE UNCHANGED handle
    /\ IF mcp_caller[c] # 0 /\ handle[mcp_caller[c]] \in {"Starting", "Connected"}
       THEN JoinThread
       ELSE UNCHANGED lingering
    /\ info' = [info EXCEPT ![c] = "None"]
    /\ pc' = [pc EXCEPT ![c] = "releasing"]
    /\ UNCHANGED <<lockVars, req, exc, retval, events, outcome>>
    /\ UNCHANGED <<ownerVars, callerVars, unitVars, tracer>>

\* asyncio.Lock.release: the lock is freed and the first waiter's future is
\* completed.
WakeUpFirst == IF waiters = <<>> THEN woken ELSE woken \cup {Head(waiters)}

\* The release left out when an exception leaves the handler.
ReleaseUnlessRaised(c) ==
    /\ pc[c] = "releasing"
    /\ IF IsRaised(retval[c])
       THEN UNCHANGED <<locked, holder, woken, released>>
       ELSE /\ locked' = FALSE
            /\ holder' = 0
            /\ woken' = WakeUpFirst
            /\ released' = [released EXCEPT ![c] = @ + 1]
    /\ outcome' = [outcome EXCEPT ![c] =
           IF IsRaised(retval[c]) THEN "raised" ELSE "response"]
    /\ req' = [req EXCEPT ![c] = NoRequest]
    /\ exc' = [exc EXCEPT ![c] = NoExc]
    /\ retval' = [retval EXCEPT ![c] = NoValue]
    /\ info' = [info EXCEPT ![c] = "None"]
    /\ events' = [events EXCEPT ![c] = {}]
    /\ mcp_caller' = [mcp_caller EXCEPT ![c] = 0]
    /\ written' = [written EXCEPT ![c] = <<>>]
    /\ pc' = [pc EXCEPT ![c] = "done"]
    /\ UNCHANGED <<waiters, acquired, handle>>
    /\ UNCHANGED <<created, started, callerVars, unitVars, lingering>>
    /\ tracer' = [tracer EXCEPT ![c] = <<>>]

\* Line 275 and the return: the lock is released, the frame ends and the
\* caller gets the response, or the exception that left an except clause.
Release(c) ==
    /\ pc[c] = "releasing"
    /\ locked' = FALSE
    /\ holder' = 0
    /\ woken' = WakeUpFirst
    /\ released' = [released EXCEPT ![c] = @ + 1]
    /\ outcome' = [outcome EXCEPT ![c] =
           IF IsRaised(retval[c]) THEN "raised" ELSE "response"]
    /\ req' = [req EXCEPT ![c] = NoRequest]
    /\ exc' = [exc EXCEPT ![c] = NoExc]
    /\ retval' = [retval EXCEPT ![c] = NoValue]
    /\ info' = [info EXCEPT ![c] = "None"]
    /\ events' = [events EXCEPT ![c] = {}]
    /\ mcp_caller' = [mcp_caller EXCEPT ![c] = 0]
    /\ written' = [written EXCEPT ![c] = <<>>]
    /\ pc' = [pc EXCEPT ![c] = "done"]
    /\ UNCHANGED <<waiters, acquired, handle>>
    /\ UNCHANGED <<created, started, callerVars, unitVars, lingering>>
    /\ tracer' = [tracer EXCEPT ![c] = <<>>]

\* _run_server: a worker thread that stop() left running ends.
WorkerEnds ==
    /\ lingering > 0
    /\ lingering' = lingering - 1
    /\ UNCHANGED <<pc, lockVars, frameVars, handle, outcome, ownerVars, tracer,
                   callerVars, unitVars>>

\* The thread joined in this step has ended within the join.
Joined == lingering' = lingering

\* The dispatcher with worker threads that end within the join of stop().
\* No step of a call reads lingering, so the calls take the same steps
\* whether threads run on or not; ThreadSpec follows those that run on.
Next ==
    \E c \in Calls :
        \/ Invoke(c)
        \/ Resume(c)
        \/ Validate(c)
        \/ Classify(c)
        \/ Extract(c)
        \/ CreateCaller(c)
        \/ Launch(c)
        \/ Handshake(c) /\ Joined
        \/ Notify(c)
        \/ Execute(c)
        \/ Block(c)
        \/ Except(c)
        \/ Close(c) /\ Joined
        \/ Release(c)

Spec == Init /\ [][Next]_vars

\* The steps of call c: the event loop runs every coroutine that is ready,
\* and the executor every send_request handed to it.
Step(c) ==
    \/ Invoke(c)
    \/ Resume(c)
    \/ Validate(c)
    \/ Classify(c)
    \/ Extract(c)
    \/ CreateCaller(c)
    \/ Launch(c)
    \/ Handshake(c)
    \/ Notify(c)
    \/ Execute(c)
    \/ Block(c)
    \/ Except(c)
    \/ Close(c)
    \/ Release(c)

\* The dispatcher under a fair event loop: a call that can take a step
\* takes one.
LiveSpec == Init /\ [][Next]_vars /\ \A c \in Calls : WF_vars(Step(c))

\* The dispatcher with its worker threads: a thread may run on after the
\* join of stop() has given up, and end at any later time.
ThreadNext ==
    \/ WorkerEnds
    \/ \E c \in Calls : Step(c)

ThreadSpec == Init /\ [][ThreadNext]_vars

\* ------------------------------------------------- McpCaller's interface
\* One McpCaller driven through connect(), execute_mcp_call() and close() in
\* any order, each call run to its end before the next.  The bounds: it
\* constructs at most MaxLaunches servers, and a request channel takes at
\* most MaxLines lines.

ChannelEnds == {"stdin_read", "stdin_write", "stdout_read", "stdout_write"}

\* SimpleThreadedMcpServer.__init__ and start(): both pipes open, the thread
\* started.
StartedServer == [is_running |-> TRUE, written |-> <<>>, open |-> ChannelEnds]

\* SimpleThreadedMcpServer.stop() on a server record
stop_server(sv) == [sv EXCEPT !.is_running = FALSE, !.open = {}]

WriteLine(sv, line) == [sv EXCEPT !.written = Append(@, line)]

\* bool(self.server_info)
Truthy(i) == i \in {"Info", "Scalar"}

\* What a call of the interface ended in.
Returned(op, method, how, launched, wrote) ==
    [op |-> op, method |-> method, outcome |-> how, code |-> 0,
     was_connected |-> is_connected, launched |-> launched, wrote |-> wrote,
     prev |-> last.op, changed |-> FALSE]

RaisedError(op, method, e, launched, wrote) ==
    [op |-> op, method |-> method, outcome |-> "raised:" \o e.type,
     code |-> e.code,
     was_connected |-> is_connected, launched |-> launched, wrote |-> wrote,
     prev |-> last.op, changed |-> FALSE]

\* McpCaller.connect(): the cached result when connected with a truthy
\* server_info; else a new server is started over self._server, initialize
\* is exchanged and the initialized notification written.  A failure stops
\* the new server, sets _server to None and raises format_error(e).
Connect ==
    /\ IF is_connected /\ Truthy(server_info)
       THEN /\ last' = Returned("connect", "", "cached", FALSE, <<>>)
            /\ UNCHANGED <<is_connected, server_info, server, servers>>
       ELSE /\ Len(servers) < MaxLaunches
            /\ \E reply \in Replies :
                 IF reply \in {"result", "nulls", "empty", "scalar"}
                 THEN /\ servers' = Append(servers,
                             WriteLine(WriteLine(StartedServer, "initialize"),
                                       "notifications/initialized"))
                      /\ server' = Len(servers) + 1
                      /\ server_info' = handshake_info(reply)
                      /\ is_connected' = TRUE
                      /\ last' = Returned("connect", "", "returned", TRUE,
                                 <<"initialize", "notifications/initialized">>)
                 ELSE /\ servers' = Append(servers,
                             stop_server(WriteLine(StartedServer, "initialize")))
                      /\ server' = 0
                      /\ last' = RaisedError("connect", "",
                             IF reply = "error"
                             THEN CustomError(INTERNAL_ERROR,
                                      "Initialize failed: " \o "worker error")
                             ELSE format_error(send_request_error(reply)),
                             TRUE, <<"initialize">>)
                      /\ UNCHANGED <<is_connected, server_info>>
    /\ UNCHANGED <<dispatcherVars, unitVars>>

\* The methods execute_mcp_call is called with.
CallMethods == {"initialize", "tools/call"}

\* execute_mcp_call testing _is_connected only: without a server the
\* request meets None, and the AttributeError leaves as an internal error.
ExecuteMcpCallByFlag(method) ==
    /\ IF ~is_connected
       THEN /\ last' = RaisedError("execute", method,
                           CustomError(CONNECTION_CLOSED, "Not connected"),
                           FALSE, <<>>)
            /\ UNCHANGED servers
       ELSE IF method = "initialize"
       THEN /\ last' = IF Truthy(server_info)
                       THEN Returned("execute", method, "cached", FALSE, <<>>)
                       ELSE RaisedError("execute", method,
                                CustomError(INVALID_REQUEST,
                                            "Please connect first"),
                                FALSE, <<>>)
            /\ UNCHANGED servers
       ELSE IF server = 0
       THEN /\ last' = RaisedError("execute", method,
                           format_error(Exception("AttributeError", "no server")),
                           FALSE, <<>>)
            /\ UNCHANGED servers
       ELSE /\ Len(servers[server].written) < MaxLines
            /\ servers' = [servers EXCEPT ![server] = WriteLine(@, "request")]
            /\ \E reply \in Replies :
                 last' =
                   CASE reply \in {"result", "nulls", "empty", "scalar"} ->
                          Returned("execute", method, "returned", FALSE,
                                   <<"request">>)
                     [] reply = "error" ->
                          RaisedError("execute", method,
                              CustomErrorData(INTERNAL_ERROR, "worker error",
                                              WorkerError),
                              FALSE, <<"request">>)
                     [] OTHER ->
                          RaisedError("execute", method,
                              send_request_error(reply), FALSE, <<"request">>)
    /\ UNCHANGED <<is_connected, server_info, server>>
    /\ UNCHANGED <<dispatcherVars, unitVars>>

\* McpCaller.execute_mcp_call(input_request): Not connected without a
\* connection; initialize from server_info; another method is written to the
\* server and its reply returned, or what send_request raised.
ExecuteMcpCall(method) ==
    /\ IF ~is_connected \/ server = 0
       THEN /\ last' = RaisedError("execute", method,
                           CustomError(CONNECTION_CLOSED, "Not connected"),
                           FALSE, <<>>)
            /\ UNCHANGED servers
       ELSE IF method = "initialize"
       THEN /\ last' = IF Truthy(server_info)
                       THEN Returned("execute", method, "cached", FALSE, <<>>)
                       ELSE RaisedError("execute", method,
                                CustomError(INVALID_REQUEST,
                                            "Please connect first"),
                                FALSE, <<>>)
            /\ UNCHANGED servers
       ELSE /\ Len(servers[server].written) < MaxLines
            /\ servers' = [servers EXCEPT ![server] = WriteLine(@, "request")]
            /\ \E reply \in Replies :
                 last' =
                   CASE reply \in {"result", "nulls", "empty", "scalar"} ->
                          Returned("execute", method, "returned", FALSE,
                                   <<"request">>)
                     [] reply = "error" ->
                          RaisedError("execute", method,
                              CustomErrorData(INTERNAL_ERROR, "worker error",
                                              WorkerError),
                              FALSE, <<"request">>)
                     [] OTHER ->
                          RaisedError("execute", method,
                              send_request_error(reply), FALSE, <<"request">>)
    /\ UNCHANGED <<is_connected, server_info, server>>
    /\ UNCHANGED <<dispatcherVars, unitVars>>

\* close() with server_info left as it is.
CloseCallerKeepingInfo ==
    /\ IF server # 0
       THEN /\ servers' = [servers EXCEPT ![server] = stop_server(@)]
            /\ server' = 0
       ELSE UNCHANGED <<server, servers>>
    /\ is_connected' = FALSE
    /\ UNCHANGED server_info
    /\ last' = [Returned("close", "", "returned", FALSE, <<>>) EXCEPT
                   !.changed = <<is_connected', server_info', server', servers'>>
                               # <<is_connected, server_info, server, servers>>]
    /\ UNCHANGED <<dispatcherVars, unitVars>>

\* McpCaller.close(): a server, if any, is stopped and forgotten;
\* _is_connected and server_info are cleared.
CloseCaller ==
    /\ IF server # 0
       THEN /\ servers' = [servers EXCEPT ![server] = stop_server(@)]
            /\ server' = 0
       ELSE UNCHANGED <<server, servers>>
    /\ is_connected' = FALSE
    /\ server_info' = "None"
    /\ last' = [Returned("close", "", "returned", FALSE, <<>>) EXCEPT
                   !.changed = <<is_connected', server_info', server', servers'>>
                               # <<is_connected, server_info, server, servers>>]
    /\ UNCHANGED <<dispatcherVars, unitVars>>

CallerNext ==
    \/ Connect
    \/ \E method \in CallMethods : ExecuteMcpCall(method)
    \/ CloseCaller

CallerSpec == Init /\ [][CallerNext]_vars

\* ------------------------------------------- one bridge, step by step
\* One McpCaller used as rpc_handler uses it (connect, execute_mcp_call,
\* close) with the worker thread running beside the host; the host may send
\* up to MaxRequests requests before it closes.  Messages are numbered in
\* the order the host writes them: 1 is initialize, 2 the initialized
\* notification, the others are forwarded requests.

InitializedNotification == 2

\* The reply line of a worker to request n.
Answer(n) == [re |-> n, error |-> FALSE]

\* A line the worker writes on its own, e.g. a notifications/message.
Unsolicited == [re |-> 0, error |-> FALSE]

\* The line _run_server writes when main_func raised (lines 187-193): an
\* error object with no id.
ServerErrorLine == [re |-> 0, error |-> TRUE]

\* send_request, lines 118-120: one line written to the request channel.
WriteMessage ==
    /\ request_channel' = Append(request_channel, sent + 1)
    /\ pending' = pending \cup {sent + 1}
    /\ sent' = sent + 1

\* send_request, line 129: readline() takes the first line of the reply
\* channel, whatever message it answers.
ReadReply ==
    /\ reply_channel' = Tail(reply_channel)
    /\ returned' = Append(returned,
           [request |-> CHOOSE n \in pending : TRUE,
            re |-> Head(reply_channel).re,
            error |-> Head(reply_channel).error])

\* SimpleThreadedMcpServer.stop(), lines 89-96: end of stream for the worker.
StopServer == stdin_closed' = TRUE

\* connect(), lines 220-248: the server is constructed, its thread started
\* and the initialize request written.
ConnectStart ==
    /\ host = "new"
    /\ worker' = "new"
    /\ WriteMessage
    /\ host' = "initializing"
    /\ UNCHANGED <<sys_streams, old_streams, original_streams, reply_channel,
                   owed, returned, emitted, stdin_closed>>
    /\ UNCHANGED <<dispatcherVars, callerVars, tracerVars, errorVars, resolverVars>>

\* connect(), lines 246-256 and 276-280: the initialize exchange ends with a
\* line, or with select() expiring on an empty reply channel; an error line
\* or the timeout stops the server.
InitializeEnd ==
    /\ host = "initializing"
    /\ IF reply_channel # <<>>
       THEN /\ ReadReply
            /\ IF Head(reply_channel).error
               THEN StopServer /\ host' = "joining"
               ELSE UNCHANGED stdin_closed /\ host' = "notify"
       ELSE /\ StopServer
            /\ host' = "joining"
            /\ UNCHANGED <<reply_channel, returned>>
    /\ pending' = {}
    /\ UNCHANGED <<worker, sys_streams, old_streams, original_streams,
                   request_channel, owed, sent, emitted>>
    /\ UNCHANGED <<dispatcherVars, callerVars, tracerVars, errorVars, resolverVars>>

\* connect(), lines 259-269: the notification is written.
NotifyWrite ==
    /\ host = "notify"
    /\ WriteMessage
    /\ host' = "notifying"
    /\ UNCHANGED <<worker, sys_streams, old_streams, original_streams,
                   reply_channel, owed, returned, emitted, stdin_closed>>
    /\ UNCHANGED <<dispatcherVars, callerVars, tracerVars, errorVars, resolverVars>>

\* connect(), lines 266-274: select() with its 10 microseconds; a line that
\* is there is read and dropped, a timeout is swallowed.
NotifyEnd ==
    /\ host = "notifying"
    /\ IF reply_channel # <<>>
       THEN ReadReply
       ELSE UNCHANGED <<reply_channel, returned>>
    /\ pending' = {}
    /\ host' = "connected"
    /\ UNCHANGED <<worker, sys_streams, old_streams, original_streams,
                   request_channel, owed, sent, emitted, stdin_closed>>
    /\ UNCHANGED <<dispatcherVars, callerVars, tracerVars, errorVars, resolverVars>>

\* execute_mcp_call, lines 319-345: the process-wide stdout and stderr are
\* saved and replaced by the capture buffers, the request is written.
ExecuteStart ==
    /\ host = "connected"
    /\ sent < InitializedNotification + MaxRequests
    /\ original_streams' =
           [stdout |-> sys_streams.stdout, stderr |-> sys_streams.stderr]
    /\ sys_streams' = [sys_streams EXCEPT !.stdout = "stdout_capture",
                                          !.stderr = "stderr_capture"]
    /\ WriteMessage
    /\ host' = "executing"
    /\ UNCHANGED <<worker, old_streams, reply_channel, owed, returned,
                   emitted, stdin_closed>>
    /\ UNCHANGED <<dispatcherVars, callerVars, tracerVars, errorVars, resolverVars>>

\* execute_mcp_call, lines 343-397: send_request returns the first line of
\* the reply channel, or raises TimeoutError on an empty one.
ExecuteEnd ==
    /\ host = "executing"
    /\ IF reply_channel # <<>>
       THEN ReadReply
       ELSE UNCHANGED <<reply_channel, returned>>
    /\ pending' = {}
    /\ host' = "restore"
    /\ UNCHANGED <<worker, sys_streams, old_streams, original_streams,
                   request_channel, owed, sent, emitted, stdin_closed>>
    /\ UNCHANGED <<dispatcherVars, callerVars, tracerVars, errorVars, resolverVars>>

\* execute_mcp_call, lines 398-401: the finally clause puts back what the
\* call saved.
ExecuteRestore ==
    /\ host = "restore"
    /\ sys_streams' = [sys_streams EXCEPT !.stdout = original_streams.stdout,
                                          !.stderr = original_streams.stderr]
    /\ host' = "connected"
    /\ UNCHANGED <<worker, old_streams, original_streams, request_channel,
                   reply_channel, owed, sent, pending, returned, emitted,
                   stdin_closed>>
    /\ UNCHANGED <<dispatcherVars, callerVars, tracerVars, errorVars, resolverVars>>

\* close() and stop(), lines 89-99: the write end of the request channel is
\* closed and the thread joined.
CloseStart ==
    /\ host = "connected"
    /\ StopServer
    /\ host' = "joining"
    /\ UNCHANGED <<worker, sys_streams, old_streams, original_streams,
                   request_channel, reply_channel, owed, sent, pending,
                   returned, emitted>>
    /\ UNCHANGED <<dispatcherVars, callerVars, tracerVars, errorVars, resolverVars>>

\* stop(), lines 98-107: join(timeout=2.0) returns, the worker ended or not.
CloseEnd ==
    /\ host = "joining"
    /\ host' = "closed"
    /\ UNCHANGED <<worker, sys_streams, old_streams, original_streams,
                   request_channel, reply_channel, owed, sent, pending,
                   returned, emitted, stdin_closed>>
    /\ UNCHANGED <<dispatcherVars, callerVars, tracerVars, errorVars, resolverVars>>

\* _run_server, lines 144-149: the thread saves the process-wide streams and
\* binds stdin and stdout to its channel ends.
WorkerRebind ==
    /\ worker = "new"
    /\ old_streams' = sys_streams
    /\ sys_streams' = [sys_streams EXCEPT !.stdin = "stdin_read_file",
                                          !.stdout = "stdout_write_file"]
    /\ worker' = "running"
    /\ UNCHANGED <<host, original_streams, request_channel, reply_channel,
                   owed, sent, pending, returned, emitted, stdin_closed>>
    /\ UNCHANGED <<dispatcherVars, callerVars, tracerVars, errorVars, resolverVars>>

\* The worker reads a line; a request is owed an answer, the notification
\* is not.
WorkerRead ==
    /\ worker = "running"
    /\ request_channel # <<>>
    /\ request_channel' = Tail(request_channel)
    /\ owed' = IF Head(request_channel) = InitializedNotification
               THEN owed
               ELSE owed \cup {Head(request_channel)}
    /\ UNCHANGED <<host, worker, sys_streams, old_streams, original_streams,
                   reply_channel, sent, pending, returned, emitted,
                   stdin_closed>>
    /\ UNCHANGED <<dispatcherVars, callerVars, tracerVars, errorVars, resolverVars>>

\* The worker answers a request it has read.
WorkerAnswer(n) ==
    /\ worker = "running"
    /\ n \in owed
    /\ owed' = owed \ {n}
    /\ reply_channel' = Append(reply_channel, Answer(n))
    /\ UNCHANGED <<host, worker, sys_streams, old_streams, original_streams,
                   request_channel, sent, pending, returned, emitted,
                   stdin_closed>>
    /\ UNCHANGED <<dispatcherVars, callerVars, tracerVars, errorVars, resolverVars>>

\* The worker writes a line nobody asked for.
WorkerEmit ==
    /\ worker = "running"
    /\ emitted < MaxUnsolicited
    /\ emitted' = emitted + 1
    /\ reply_channel' = Append(reply_channel, Unsolicited)
    /\ UNCHANGED <<host, worker, sys_streams, old_streams, original_streams,
                   request_channel, owed, sent, pending, returned,
                   stdin_closed>>
    /\ UNCHANGED <<dispatcherVars, callerVars, tracerVars, errorVars, resolverVars>>

\* _run_server, lines 161-179: main_func returns and the thread puts back
\* the streams it saved.
WorkerReturn ==
    /\ worker = "running"
    /\ sys_streams' = old_streams
    /\ worker' = "exited"
    /\ UNCHANGED <<host, old_streams, original_streams, request_channel,
                   reply_channel, owed, sent, pending, returned, emitted,
                   stdin_closed>>
    /\ UNCHANGED <<dispatcherVars, callerVars, tracerVars, errorVars, resolverVars>>

\* _run_server, lines 139-141 and 170-195: the import or main_func raises;
\* a thread that had rebound the streams puts them back, then the error
\* line is written.
WorkerRaise ==
    /\ worker \in {"new", "running"}
    /\ sys_streams' = IF worker = "running" THEN old_streams ELSE sys_streams
    /\ reply_channel' = Append(reply_channel, ServerErrorLine)
    /\ worker' = "exited"
    /\ UNCHANGED <<host, old_streams, original_streams, request_channel,
                   owed, sent, pending, returned, emitted, stdin_closed>>
    /\ UNCHANGED <<dispatcherVars, callerVars, tracerVars, errorVars, resolverVars>>

BridgeNext ==
    \/ ConnectStart
    \/ InitializeEnd
    \/ NotifyWrite
    \/ NotifyEnd
    \/ ExecuteStart
    \/ ExecuteEnd
    \/ ExecuteRestore
    \/ CloseStart
    \/ CloseEnd
    \/ WorkerRebind
    \/ WorkerRead
    \/ \E n \in 1..(InitializedNotification + MaxRequests) : WorkerAnswer(n)
    \/ WorkerEmit
    \/ WorkerReturn
    \/ WorkerRaise

BridgeSpec == Init /\ [][BridgeNext]_vars

\* --------------------------------------------------------------- Tracer
\* One Tracer taking up to MaxOps calls of record_span, merge_child_trace
\* and get_trace in any order; its merges take up to MaxChildSpans child
\* spans in all.  The clock is the number of calls so far.

SpanStatuses == {"running", "success", "error"}

\* TraceSpan(...): pydantic refuses a status outside the Literal.
IsTraceSpan(span) == span.status \in SpanStatuses

\* "success" if is_success else "error"
StatusOf(is_success) == IF is_success THEN "success" ELSE "error"

\* The seq of the k-th span of a child trace.
Digit(k) ==
    CASE k = 1 -> "1" [] k = 2 -> "2" [] k = 3 -> "3" [] OTHER -> "4"

\* What a child span says about its status: nothing, a status of the
\* schema, or a value outside it.
ChildStatuses == {"", "running", "error", "done"}

ChildSpan(k, status) == [seq |-> Digit(k), status |-> status]

\* The child traces merge_child_trace is called with: a bare span list, a
\* trace object {spans, data}, a value that is neither (42, None, "x"), and
\* an object without a spans list.
ChildTraces(n) ==
    { [shape |-> sh, spans |-> [k \in DOMAIN l |-> ChildSpan(k, l[k])]] :
          sh \in {"list", "trace"},
          l \in UNION { [1..k -> ChildStatuses] : k \in 0..n } }
    \cup { [shape |-> sh, spans |-> <<>>] : sh \in {"scalar", "object"} }

BaseSeq == "executeMcpCall"

\* _merge_spans_array, lines 123-134, for one entry with the merge's status
\* used whatever the child says.
MergedSpanDefaultOnly(span_data, base_seq, status) ==
    [seq |-> base_seq \o "." \o span_data.seq,
     status |-> status,
     is_valid |-> FALSE]

\* _merge_spans_array, lines 123-134, for one entry: the span it builds.
MergedSpan(span_data, base_seq, status) ==
    [seq |-> base_seq \o "." \o span_data.seq,
     status |-> IF span_data.status # "" THEN span_data.status ELSE status,
     is_valid |-> FALSE]

\* _merge_spans_array: the spans appended; an entry whose TraceSpan cannot
\* be built is skipped.
merge_spans_array(child_spans, base_seq, status) ==
    SelectSeq([k \in DOMAIN child_spans |->
                   MergedSpan(child_spans[k], base_seq, status)],
              IsTraceSpan)

\* _create_fallback_span for a child trace without trace_id and seq
fallback_span(base_seq, status) ==
    [seq |-> base_seq \o ".unknown_span", status |-> status, is_valid |-> FALSE]

\* _merge_trace_data: the dictionary is created if there is none, and
\* changed in place if there is one.
merge_trace_data(data) ==
    [is_none |-> FALSE, child_traces |-> data.child_traces + 1]

TracerCall(op, child, is_success) ==
    [op |-> op, before |-> spans, child |-> child, is_success |-> is_success,
     raised |-> FALSE]

\* The parents a Tracer is constructed with, and the parent_seq record_span
\* is called with.
AmbientParents == {Null, "root"}

ParentSeqs == {Null, "", "given"}

\* parent_seq as given, None included.
span_parent_as_given(parent_seq) == parent_seq

\* parent_seq or self.current_parent
span_parent(parent_seq) ==
    IF parent_seq \in {Null, ""} THEN current_parent ELSE parent_seq

\* Tracer.record_span(name, parent_seq): the last span is ended if it is
\* running, and a running span is appended.
RecordSpan ==
    /\ tracer_ops < MaxOps
    /\ \E parent_seq \in ParentSeqs :
         /\ spans' = record_span(spans, "span", span_parent(parent_seq))
         /\ tracer_last' = TracerCall("record", NoTracerCall.child, TRUE)
                               @@ [parent_seq |-> parent_seq]
    /\ tracer_ops' = tracer_ops + 1
    /\ UNCHANGED <<end_time, trace_additional_data, snapshots,
                   merged_children, current_parent>>
    /\ UNCHANGED <<dispatcherVars, callerVars, bridgeVars, errorVars, resolverVars>>

\* Tracer.merge_child_trace(base_seq, parent_seq, is_success, child_trace)
MergeChildTrace ==
    /\ tracer_ops < MaxOps
    /\ \E is_success \in BOOLEAN,
          child \in ChildTraces(MaxChildSpans - merged_children) :
         LET status == StatusOf(is_success) IN
         /\ spans' =
               IF child.shape \in {"list", "trace"}
               THEN spans \o merge_spans_array(child.spans, BaseSeq, status)
               ELSE Append(spans, fallback_span(BaseSeq, status))
         /\ trace_additional_data' =
               IF child.shape = "trace"
               THEN merge_trace_data(trace_additional_data)
               ELSE trace_additional_data
         /\ merged_children' = merged_children + Len(child.spans)
         /\ tracer_last' = TracerCall("merge", child, is_success)
    /\ tracer_ops' = tracer_ops + 1
    /\ UNCHANGED <<end_time, snapshots, current_parent>>
    /\ UNCHANGED <<dispatcherVars, callerVars, bridgeVars, errorVars, resolverVars>>

\* get_trace with only the last span ended.
get_trace_spans_last_only(last_span_success) ==
    [i \in DOMAIN spans |->
        IF spans[i].status = "running" /\ i = Len(spans)
        THEN end_previous_span(spans[i], ~last_span_success)
        ELSE spans[i]]

\* get_trace, lines 217-220: every running span is ended.
get_trace_spans(last_span_success) == ended_spans(spans, last_span_success)

\* Tracer.get_trace(last_span_success): the running spans are ended, the
\* spans copied out, end_time set if it is not yet, and the trace returned
\* with the Tracer's own trace_additional_data object as its data.
GetTrace ==
    /\ tracer_ops < MaxOps
    /\ \E last_span_success \in BOOLEAN :
         /\ spans' = get_trace_spans(last_span_success)
         /\ end_time' = IF end_time = 0 THEN tracer_ops + 1 ELSE end_time
         /\ snapshots' = Append(snapshots,
                [endTime |-> end_time',
                 spans |-> spans',
                 data |-> trace_additional_data,
                 shared |-> ~trace_additional_data.is_none])
         /\ tracer_last' = TracerCall("get", NoTracerCall.child,
                                      last_span_success)
    /\ tracer_ops' = tracer_ops + 1
    /\ UNCHANGED <<trace_additional_data, merged_children, current_parent>>
    /\ UNCHANGED <<dispatcherVars, callerVars, bridgeVars, errorVars, resolverVars>>

TracerNext ==
    \/ RecordSpan
    \/ MergeChildTrace
    \/ GetTrace

\* A Tracer with or without a parent, nothing else running.
TracerSpecInit ==
    /\ HandlerInit
    /\ CallerInit
    /\ BridgeInit
    /\ ErrorIdle
    /\ ResolverIdle
    /\ \E parent \in AmbientParents : TracerNew(parent)

TracerSpec == TracerSpecInit /\ [][TracerNext]_vars

\* ------------------------------------------------------------ ErrorModel
\* format_error applied to a value, and to its own result.

FormatMessages ==
    {"boom", "MCP error -32000: boom", "boom after MCP error -32000: retry"}

DictCodes == {-32000, INTERNAL_ERROR}

ErrorValues ==
    { CustomError(code, m) :
          code \in {INVALID_REQUEST, CONNECTION_CLOSED}, m \in FormatMessages }
    \cup { CustomErrorData(INTERNAL_ERROR, m, WorkerError) : m \in FormatMessages }
    \cup { DictError(ci, IF ci THEN code ELSE 0, ms, m, dk) :
              ci \in BOOLEAN, code \in DictCodes, ms \in BOOLEAN,
              m \in FormatMessages, dk \in {"absent", "dict", "text"} }
    \cup { Exception(t, m) :
              t \in {"TimeoutError", "RuntimeError", "ValueError"},
              m \in FormatMessages }
    \cup { OtherValue(str) : str \in {"42", "text"} }
    \cup { NoneValue }

FormatInit ==
    /\ HandlerInit
    /\ CallerInit
    /\ BridgeInit
    /\ TracerInit
    /\ ResolverIdle
    /\ error_in \in ErrorValues
    /\ formatted = <<>>

\* format_error(error)
Format ==
    /\ formatted = <<>>
    /\ formatted' = <<format_error(error_in)>>
    /\ UNCHANGED error_in
    /\ UNCHANGED <<dispatcherVars, callerVars, bridgeVars, tracerVars, resolverVars>>

\* format_error(format_error(error))
FormatAgain ==
    /\ Len(formatted) = 1
    /\ formatted' = Append(formatted, format_error(formatted[1]))
    /\ UNCHANGED error_in
    /\ UNCHANGED <<dispatcherVars, callerVars, bridgeVars, tracerVars, resolverVars>>

FormatNext == Format \/ FormatAgain

FormatSpec == FormatInit /\ [][FormatNext]_vars

\* The data of an error, {} for one without.
DataOf(e) == IF "data" \in DOMAIN e THEN e.data ELSE {}

\* A value of the shape {code, message, data?}.
Shaped(e) == e.type = "dict" /\ IsCustomErrorResponse(e)

\* "MCP error <code>: "
McpPrefix(code) == "MCP error " \o ToString(code) \o ": "

RECURSIVE Contains(_, _)
Contains(s, p) ==
    /\ Len(s) >= Len(p)
    /\ \/ StartsWith(s, p)
       \/ Contains(SubSeq(s, 2, Len(s)), p)

\* What format_error does with a CustomError and with a shaped value:
\* the first passes through unchanged, the second keeps its code and data
\* and its message without the prefix; formatting the result again
\* changes nothing.
PassThroughAndShaped ==
    Len(formatted) >= 1 =>
        LET f == formatted[1] IN
        /\ f.type = "CustomError"
        /\ error_in.type = "CustomError" => f = error_in
        /\ Len(formatted) = 2 => formatted[2] = f
        /\ Shaped(error_in) =>
              /\ f.code = error_in.code
              /\ DataOf(f) = (IF error_in.data_kind = "dict" THEN DictData ELSE {})
              /\ ~Contains(f.message, McpPrefix(error_in.code))
              /\ ~Contains(error_in.message, McpPrefix(error_in.code)) =>
                    f.message = error_in.message
        /\ error_in = DictError(TRUE, -32000, TRUE, "MCP error -32000: boom", "dict") =>
              f = CustomErrorData(-32000, "boom", DictData)
        /\ error_in = DictError(TRUE, INTERNAL_ERROR, TRUE, "MCP error -32000: boom", "absent") =>
              f = CustomError(INTERNAL_ERROR, "MCP error -32000: boom")

C29_ExceptionWitness ==
    /\ Len(formatted) = 2
    /\ error_in.type = "RuntimeError"
    /\ formatted[1].code = INTERNAL_ERROR

\* --------------------------------------------------------- ResolverModel
\* parse_mcp_server_params: the argument loop, the installs, the entry
\* points read from the installed package, resolve_entry_point.

PackageSpecs ==
    { "pkg", "my-pkg", "pkg:fn", "pkg::fn", "pkg:mod:fn", "pkg:mod.sub:fn",
      "pkg:a:b.c:d", "pkg:mod.fn", "my-pkg::serve", "my-pkg:serve", "pkg:",
      "pkg:a:b:c", ":fn" }

OptionArgs ==
    { <<>>, <<"--from", "git+https://x">>, <<"--with", "dep,other">>,
      <<"--quiet">>, <<"--index-url", "https://i">>,
      <<"--from", "--quiet">>, <<"--verbose", "--quiet">>,
      <<"--extra-index-url", "https://e", "--from">> }

\* What follows the package spec.
LaterArgs ==
    { <<>>, <<"extra">>, <<"other:x">>, <<"--with">>, <<"--from", "late">> }

ArgLists ==
    { o \o <<p>> \o t : o \in OptionArgs, p \in PackageSpecs, t \in LaterArgs }
    \cup OptionArgs

ResolverInit ==
    /\ HandlerInit
    /\ CallerInit
    /\ BridgeInit
    /\ TracerInit
    /\ ErrorIdle
    /\ uv_args \in ArgLists
    /\ uv_result = [outcome |-> "none"]

\* uv_params = parse_mcp_server_params(args)
ParseMcpServerParams ==
    /\ uv_result.outcome = "none"
    /\ uv_result' \in parse_mcp_server_params(uv_args)
    /\ UNCHANGED uv_args
    /\ UNCHANGED <<dispatcherVars, callerVars, bridgeVars, tracerVars, errorVars>>

ResolverNext == ParseMcpServerParams

ResolverSpec == ResolverInit /\ [][ResolverNext]_vars

\* The entry of a package spec name:entry, Null for a spec without ':'.
EntryOf(package_spec) ==
    IF HasChar(package_spec, ":") THEN SplitFirst(package_spec, ":")[2] ELSE Null

\* The first argument of uv_args that is the package spec of the lists
\* drawn here: the one after the options.
PackageSpecOf(args) ==
    LET i == CHOOSE k \in 1..Len(args) :
                 args[k] \in PackageSpecs /\ \A j \in 1..(k - 1) : args[j] \notin PackageSpecs
    IN args[i]

\* A call with a package spec that was read as one has returned.
Resolved ==
    /\ uv_result.outcome = "returned"
    /\ \E k \in 1..Len(uv_args) : uv_args[k] \in PackageSpecs
    /\ uv_result.package_name = SplitFirst(PackageSpecOf(uv_args) \o ":", ":")[1]

\* The (module, function) the return value names.
Target == <<uv_result.module_path, uv_result.function_name>>

\* C30: for a package spec name:entry with an entry that is not empty, an
\* entry with both '.' and ':' is split on its last ':' into (module,
\* function); an entry with only ':' is split on its first ':', an empty
\* module side becoming the default module (the package name with '-'
\* turned into '_'); an entry without ':' is the function of the default
\* module. ["--from", "git+https://x", "pkg:mod.sub:fn"] gives module
\* "mod.sub" and function "fn", and none of these results depends on the
\* console scripts of the package.
C30_ExplicitEntry ==
    /\ Resolved /\ ~Falsy(EntryOf(PackageSpecOf(uv_args))) =>
          LET entry == EntryOf(PackageSpecOf(uv_args))
              name == uv_result.package_name
              colons == {i \in 1..Len(entry) : SubSeq(entry, i, i) = ":"}
              last_colon == CHOOSE i \in colons : \A j \in colons : j <= i
              first_colon == CHOOSE i \in colons : \A j \in colons : i <= j
          IN
          /\ uv_result.entry_point = entry
          /\ HasChar(entry, ".") /\ colons # {} =>
                Target = <<SubSeq(entry, 1, last_colon - 1),
                           SubSeq(entry, last_colon + 1, Len(entry))>>
          /\ ~HasChar(entry, ".") /\ colons # {} =>
                Target = <<IF first_colon = 1 THEN Underscored(name)
                                        ELSE SubSeq(entry, 1, first_colon - 1),
                           SubSeq(entry, first_colon + 1, Len(entry))>>
          /\ colons = {} => Target = <<Underscored(name), entry>>
    /\ uv_result.outcome = "returned" =>
          /\ uv_args = <<"--from", "git+https://x", "pkg:mod.sub:fn">> =>
                Target = <<"mod.sub", "fn">> /\ uv_result.source_path = "git+https://x"
          /\ \A o \in OptionArgs \ {<<"--quiet">>} :
                /\ uv_args = o \o <<"pkg:a:b.c:d">> => Target = <<"a:b.c", "d">>
                /\ uv_args = o \o <<"pkg:a:b:c">> => Target = <<"a", "b:c">>
                /\ uv_args = o \o <<"my-pkg::serve">> => Target = <<"my_pkg", "serve">>
                /\ uv_args = o \o <<"my-pkg:serve">> => Target = <<"my_pkg", "serve">>
                /\ uv_args = o \o <<"pkg:mod.fn">> => Target = <<"pkg", "mod.fn">>

\* The example call has returned for a package whose console scripts name
\* another target.
C30_Witness ==
    /\ uv_args = <<"--from", "git+https://x", "pkg:mod.sub:fn">>
    /\ uv_result.outcome = "returned"
    /\ uv_result.console_scripts = << <<"pkg", "pkg.cli:run">> >>
    /\ Target = <<"mod.sub", "fn">>

\* C31: with no explicit entry and no console scripts the call returns the
\* first of the guesses, the package name with '-' turned into '_' as the
\* module and main as the function (module "pkg", function "main" for
\* ["pkg"]), whether or not that module can be imported.
C31_FirstGuessUnverified ==
    uv_result.outcome = "returned" =>
        /\ Falsy(uv_result.entry_point)
             /\ uv_result.console_scripts = <<>> /\ uv_result.advertised = <<>> =>
                /\ Target = <<Underscored(uv_result.package_name), "main">>
                /\ ~HasChar(uv_result.module_path, "-")
        /\ uv_args = <<"pkg">>
             /\ uv_result.console_scripts = <<>> /\ uv_result.advertised = <<>> =>
                Target = <<"pkg", "main">>
        /\ \A o \in OptionArgs \ {<<"--quiet">>} :
             uv_args = o \o <<"my-pkg">>
                 /\ uv_result.console_scripts = <<>> /\ uv_result.advertised = <<>> =>
                    Target = <<"my_pkg", "main">>

\* ["pkg"] has returned pkg:main for a package without console scripts
\* whose module pkg cannot be imported.
C31_Witness ==
    /\ uv_args = <<"pkg">>
    /\ uv_result.outcome = "returned"
    /\ uv_result.console_scripts = <<>> /\ uv_result.advertised = <<>>
    /\ ~uv_result.importable
    /\ Target = <<"pkg", "main">>

\* ------------------------------------------------------------ properties
\* A call is in flight from its acquire() returning to its release().
InFlight(c) ==
    pc[c] \in {"admitted", "classify", "extract", "create", "launch",
               "handshake", "notify", "execute", "blocked", "except",
               "closing", "releasing"}

\* The return statement (or the except clause) has produced the call's value.
Returning(c) == pc[c] \in {"closing", "releasing"}

Live(h) == h \in {"Starting", "Connected"}

ValidMeta(r) == r.data = "Dict" /\ r.params = "Dict" /\ r.meta = "Valid"

IsError(v, code) == "error" \in DOMAIN v /\ v.error.code = code

\* C1: at every moment at most one call is between acquiring and releasing
\* the admission lock, so at most one call is at a launch, connect, execute
\* or close step and at most one WorkerHandle is started and not yet closed.
C1_SingleFlight ==
    /\ \A c, d \in Calls : InFlight(c) /\ InFlight(d) => c = d
    /\ \A c, d \in Calls : Live(handle[c]) /\ Live(handle[d]) => c = d
    /\ \A c \in Calls : Live(handle[c]) => InFlight(c)

\* A call talks to its worker while another call waits for the lock.
C1_Witness ==
    \E c, d \in Calls : pc[c] = "execute" /\ pc[d] = "waiting"

\* C2: a call that acquired the lock releases it exactly once on every exit
\* path, and only the call that holds the lock releases it.
C2_ReleasedExactlyOnce ==
    \A c \in Calls :
        /\ pc[c] \in {"idle", "waiting"} => acquired[c] = 0 /\ released[c] = 0
        /\ InFlight(c) =>
              acquired[c] = 1 /\ released[c] = 0 /\ locked /\ holder = c
        /\ pc[c] = "done" => acquired[c] = 1 /\ released[c] = 1

\* A call whose except clause itself raised has returned and freed the lock.
C2_Witness ==
    \E c \in Calls :
        pc[c] = "done" /\ outcome[c] = "raised" /\ released[c] = 1 /\ ~locked

\* C3: the WorkerHandle a call created is closed before the call releases
\* the lock, on every exit path; while the lock is free no WorkerHandle is
\* Starting or Connected.
C3_ClosedBeforeRelease ==
    /\ \A c \in Calls :
          pc[c] \in {"releasing", "done"} =>
              /\ ~Live(handle[c])
              /\ "launch" \in events[c] => handle[c] = "Closed"
    /\ ~locked => \A c \in Calls : ~Live(handle[c])

\* A forwarded call has come to releasing the lock with its handle closed.
C3_Witness ==
    \E c \in Calls :
        pc[c] = "releasing" /\ "launch" \in events[c] /\ handle[c] = "Closed"

\* C4: rpc_handler never propagates an exception to its caller.
C4_NeverRaises == \A c \in Calls : outcome[c] # "raised"

MissingServer(r) ==
    /\ r.data = "Dict"
    /\ \/ r.params = "Absent"
       \/ r.params = "Dict" /\ r.meta \in {"Absent", "Invalid", "NonDict"}

\* C6: a request missing params._meta.server yields InvalidRequest for every
\* method, without the ArgumentResolver being invoked or a worker launched.
C6_MissingServerInvalidRequest ==
    \A c \in Calls :
        MissingServer(req[c]) =>
            /\ events[c] = {} /\ handle[c] = "None"
            /\ Returning(c) => IsError(retval[c], INVALID_REQUEST)

\* The message a MethodNotFound for an unsupported method carries: the 3
\* Local and the 9 Forwarded names.
NonRejectedNames ==
    "ping, logging/setLevel, notifications/initialized, initialize, "
    \o "prompts/get, prompts/list, resources/list, resources/templates/list, "
    \o "resources/read, tools/call, tools/list, completion/complete"

C8_ForwardedNotification ==
    \A c \in Calls :
        (ValidMeta(req[c]) /\ Lookup(req[c].method) = "Forwarded"
             /\ ~HasId(req[c])) =>
            /\ events[c] = {} /\ handle[c] = "None"
            /\ pc[c] \notin {"extract", "create", "launch", "handshake",
                             "notify", "execute"}
            /\ Returning(c) =>
                  /\ IsError(retval[c], METHOD_NOT_FOUND)
                  /\ "id" \notin DOMAIN retval[c]

\* A Forwarded notification has been answered.
C8_Witness ==
    \E c \in Calls :
        /\ pc[c] = "releasing"
        /\ ValidMeta(req[c])
        /\ req[c].method = "tools/call"
        /\ ~HasId(req[c])
        /\ IsError(retval[c], METHOD_NOT_FOUND)

\* C9: for a Forwarded method with an id, a launch command other than uv and
\* uvx fails with InvalidRequest before the ArgumentResolver runs and before
\* any worker is created or launched.
C9_OnlyUvOrUvx ==
    \A c \in Calls :
        (ValidMeta(req[c]) /\ Lookup(req[c].method) = "Forwarded"
             /\ HasId(req[c]) /\ req[c].command \notin {"uv", "uvx"}) =>
            /\ events[c] = {} /\ handle[c] = "None"
            /\ Returning(c) => IsError(retval[c], INVALID_REQUEST)

\* C10: a Local method with a valid _meta.server is answered inline with a
\* success result, with or without an id and whatever the launch command,
\* and never invokes the ArgumentResolver, creates a WorkerHandle or writes
\* to a channel.
C10_LocalInline ==
    \A c \in Calls :
        (ValidMeta(req[c]) /\ Lookup(req[c].method) = "Local") =>
            /\ events[c] = {} /\ handle[c] = "None"
            /\ pc[c] \in {"classify", "closing", "releasing"}
            /\ Returning(c) =>
                  /\ "result" \in DOMAIN retval[c]
                  /\ "error" \notin DOMAIN retval[c]

\* A Local notification whose launch command is not uv has been answered.
C10_Witness ==
    \E c \in Calls :
        /\ pc[c] = "releasing"
        /\ ValidMeta(req[c])
        /\ req[c].method = "logging/setLevel"
        /\ ~HasId(req[c])
        /\ req[c].command = "python"
        /\ "result" \in DOMAIN retval[c]

\* ------------------------------------------- properties of forwarded calls
\* What the call's exchanges with its worker ended in.
HandshakeEnded(c, reply) == ("initialize:" \o reply) \in events[c]
ExecuteEnded(c, reply) == ("execute:" \o reply) \in events[c]

Lines(c) == [i \in 1..Len(written[c]) |-> written[c][i].line]

IsPrefix(s, t) == Len(s) <= Len(t) /\ s = SubSeq(t, 1, Len(s))

\* C11: a forwarded call whose worker does not reply within the timeout, in
\* the handshake or in the forwarded request, yields an error response with
\* code RequestTimeout, and its WorkerHandle is closed when the call returns.
C11_TimeoutRequestTimeout ==
    \A c \in Calls :
        (HandshakeEnded(c, "timeout") \/ ExecuteEnded(c, "timeout")) =>
            /\ Returning(c) => IsError(retval[c], REQUEST_TIMEOUT)
            /\ pc[c] = "releasing" => handle[c] = "Closed"

\* C12: end-of-stream on the response channel before a reply line yields an
\* error response with code ConnectionClosed; a malformed reply line yields
\* an error response and the request is written once.
C12_EofConnectionClosed ==
    \A c \in Calls :
        /\ (HandshakeEnded(c, "eof") \/ ExecuteEnded(c, "eof")) =>
              (Returning(c) => IsError(retval[c], CONNECTION_CLOSED))
        /\ ExecuteEnded(c, "garbage") =>
              /\ Returning(c) => "error" \in DOMAIN retval[c]
              /\ Len(SelectSeq(Lines(c), LAMBDA l : l = "request")) = 1

ToolsCallAnswered(c) ==
    /\ Returning(c)
    /\ req[c].method = "tools/call"
    /\ ExecuteEnded(c, "result")

C15_InstallFailureAborts ==
    \A c \in Calls :
        /\ "unresolved" \in events[c] =>
              /\ created[c] = 0 /\ started[c] = 0 /\ handle[c] = "None"
              /\ mcp_caller[c] = 0
              /\ pc[c] \in {"except", "closing", "releasing"}
              /\ Returning(c) => IsError(retval[c], INTERNAL_ERROR)
        /\ (InFlight(c) /\ (created[c] > 0 \/ started[c] > 0)) =>
              "resolved" \in events[c]

\* A failed resolution has been answered with InternalError, no handle made.
C15_Witness ==
    \E c \in Calls :
        /\ pc[c] = "releasing"
        /\ "unresolved" \in events[c]
        /\ IsError(retval[c], INTERNAL_ERROR)
        /\ handle[c] = "None"

\* C16: a call constructs at most one WorkerHandle and starts at most one
\* worker, only for a Forwarded method with an id; its mcp_caller is the
\* handle it constructed, and every line a call writes goes to the request
\* channel of the handle that call constructed, so none to the handle of
\* another call.
C16_OneOwnedHandle ==
    \A c \in Calls :
        /\ created[c] <= 1 /\ started[c] <= 1
        /\ started[c] <= created[c]
        /\ (created[c] > 0) <=> (handle[c] # "None")
        /\ (InFlight(c) /\ created[c] > 0) =>
              Lookup(req[c].method) = "Forwarded" /\ HasId(req[c])
        /\ mcp_caller[c] \in {0, c}
        /\ \A i \in 1..Len(written[c]) : written[c][i].handle = c

\* A later call has written its request to its own handle while the handle
\* of an earlier call stays closed.
C16_Witness ==
    \E c, d \in Calls :
        /\ c # d
        /\ pc[d] = "done" /\ handle[d] = "Closed" /\ started[d] = 1
        /\ pc[c] = "closing" /\ Len(written[c]) = 3
        /\ \A i \in 1..3 : written[c][i].handle = c

RequestLines == <<"initialize", "notifications/initialized", "request">>

\* C20: the lines a call writes to its handle's request channel are, in
\* order, one initialize, one notifications/initialized and at most one
\* forwarded request (none when the inbound method is initialize);
\* connect() returns although the notification step failed; nothing is
\* written to a closed handle.
C20_WriteOrder ==
    \A c \in Calls :
        /\ IsPrefix(Lines(c), RequestLines)
        /\ "write" \in events[c] => Len(written[c]) >= 1
        /\ "connected" \in events[c] => Len(written[c]) >= 2
        /\ (InFlight(c) /\ req[c].method = "initialize") =>
              Len(written[c]) <= 2
        /\ ("notify failed" \in events[c] /\ pc[c] # "notify") =>
              "connected" \in events[c]
        /\ \A i \in 1..Len(written[c]) :
              written[c][i].to \in {"Starting", "Connected"}

\* A call whose notification step failed has forwarded its request.
C20_Witness ==
    \E c \in Calls :
        /\ pc[c] = "releasing"
        /\ "notify failed" \in events[c]
        /\ Lines(c) = RequestLines
        /\ handle[c] = "Closed"

\* C23: every call that acquires the admission lock eventually returns and
\* releases the lock, whatever the worker does, and every call waiting for
\* the lock is eventually admitted.
C23_AdmittedCallReturns ==
    \A c \in Calls :
        /\ (pc[c] = "admitted") ~> (pc[c] = "done" /\ released[c] = 1)
        /\ (pc[c] = "waiting") ~> (pc[c] = "admitted")

\* ---------------------------------------- properties of the bridge's steps
\* C21: the line send_request returns for a request is the worker's reply to
\* that request; a line the worker wrote for another message or on its own
\* is never returned for a request, and at most one request is pending on
\* the bridge.  (The error line the bridge itself writes for a worker that
\* raised carries no id and is not counted.)
C21_ReplyCorrelation ==
    /\ \A i \in DOMAIN returned :
          returned[i].request # InitializedNotification /\ ~returned[i].error =>
              returned[i].re = returned[i].request
    /\ Cardinality(pending) <= 1

\* C22: once the call has finished, the bridge is closed and the worker
\* thread has ended, sys.stdin, sys.stdout and sys.stderr are the objects
\* they were before the call, in every interleaving of the worker thread
\* with the host.
C22_StreamsRestored ==
    host = "closed" /\ worker = "exited" => sys_streams = OwnStreams

\* ------------------------------------------------ properties of the Tracer
Running(sps) == { i \in DOMAIN sps : sps[i].status = "running" }

\* The spans a call of the Tracer appended.
Appended == SubSeq(spans, Len(tracer_last.before) + 1, Len(spans))

\* The call left the spans that were there as they were.
BeforeKept ==
    /\ Len(spans) >= Len(tracer_last.before)
    /\ SubSeq(spans, 1, Len(tracer_last.before)) = tracer_last.before

\* C24: after any sequence of record_span, merge_child_trace and get_trace
\* calls at most one span of the Tracer has status running.
C24_OneRunningSpan == Cardinality(Running(spans)) <= 1

\* C25: get_trace(last_span_success) returns no span with status running:
\* every span that was running is closed, with status success when
\* last_span_success is true and error otherwise, and the spans that were
\* closed keep their status.
C25_GetTraceClosesAll ==
    tracer_last.op = "get" =>
        LET out == snapshots[Len(snapshots)].spans
            before == tracer_last.before IN
        /\ Running(out) = {}
        /\ Len(out) = Len(before)
        /\ \A i \in DOMAIN before :
              /\ out[i].seq = before[i].seq
              /\ out[i].status =
                    IF before[i].status = "running"
                    THEN StatusOf(tracer_last.is_success)
                    ELSE before[i].status

\* get_trace(False) on a Tracer with two running spans and a closed one.
C25_Witness ==
    /\ tracer_last.op = "get"
    /\ ~tracer_last.is_success
    /\ Cardinality(Running(tracer_last.before)) >= 2
    /\ \E i \in DOMAIN tracer_last.before :
          tracer_last.before[i].status = "success"

\* The child trace is a span list, or a trace object with one, whose
\* entries are all spans of the schema.
WellFormed(child) ==
    /\ child.shape \in {"list", "trace"}
    /\ \A k \in DOMAIN child.spans :
          child.spans[k].status \in SpanStatuses \cup {""}

\* C26: merge_child_trace given a child trace (or bare span list) with n
\* child spans appends exactly n merged spans, in order, each with seq
\* "{base_seq}.{child seq}" and with the child's own status when it has one
\* and the status of is_success otherwise, and leaves the spans recorded
\* before unchanged.
C26_MergeAppendsEach ==
    tracer_last.op = "merge" /\ WellFormed(tracer_last.child) =>
        LET child_spans == tracer_last.child.spans IN
        /\ BeforeKept
        /\ Len(Appended) = Len(child_spans)
        /\ \A k \in DOMAIN child_spans :
              /\ Appended[k].seq = BaseSeq \o "." \o child_spans[k].seq
              /\ Appended[k].status =
                    IF child_spans[k].status # ""
                    THEN child_spans[k].status
                    ELSE StatusOf(tracer_last.is_success)

\* A merge with is_success of two child spans, the first without a status
\* and the second with status error, into a Tracer that had a span.
C26_Witness ==
    /\ tracer_last.op = "merge"
    /\ tracer_last.is_success
    /\ tracer_last.before # <<>>
    /\ Len(tracer_last.child.spans) = 2
    /\ tracer_last.child.spans[1].status = ""
    /\ tracer_last.child.spans[2].status = "error"
    /\ Len(spans) = Len(tracer_last.before) + 2

\* C27: merge_child_trace given malformed child data (a value that is
\* neither a span list nor a trace object with a spans list, or a span list
\* with an entry that is no span of the schema) raises nothing and records
\* one fallback span in place of the malformed data.
C27_MalformedOneFallback ==
    tracer_last.op = "merge" /\ ~WellFormed(tracer_last.child) =>
        /\ ~tracer_last.raised
        /\ BeforeKept
        /\ Len(Appended) = 1
        /\ Appended[1].seq = BaseSeq \o ".unknown_span"

\* The data of a returned trace as its holder sees it now: the Tracer's own
\* dictionary if that is what get_trace handed out.
SnapshotData(snapshot) ==
    IF snapshot.shared THEN trace_additional_data ELSE snapshot.data

\* C28: once get_trace has returned, endTime never changes, and the spans
\* and data of a returned trace are not altered by a later record_span,
\* merge_child_trace or get_trace on the same Tracer.
C28_TraceImmutable ==
    \A i \in DOMAIN snapshots :
        /\ snapshots[i].endTime = end_time
        /\ SnapshotData(snapshots[i]) = snapshots[i].data

\* ------------------------------------ properties of McpCaller's interface
\* C17: connect() on a bridge that a connect() has connected (and no
\* close() since) returns the cached handshake result, starts no worker and
\* writes no initialize request, whatever the handshake result was.
C17_ConnectIdempotent ==
    (last.op = "connect" /\ last.was_connected) =>
        /\ last.outcome = "cached"
        /\ ~last.launched
        /\ last.wrote = <<>>

InitializeLines(sv) == SelectSeq(sv.written, LAMBDA l : l = "initialize")

\* C18: execute_mcp_call with method initialize writes nothing to the
\* request channel; on a connected bridge it returns the cached handshake
\* result, on a bridge that is not connected it fails with InvalidRequest;
\* each worker receives exactly one initialize request.
C18_InitializeShortCircuit ==
    /\ (last.op = "execute" /\ last.method = "initialize") =>
          /\ last.wrote = <<>>
          /\ last.was_connected => last.outcome = "cached"
          /\ ~last.was_connected =>
                last.outcome = "raised:CustomError"
                    /\ last.code = INVALID_REQUEST
    /\ \A i \in 1..Len(servers) : Len(InitializeLines(servers[i])) = 1

\* C19: close() raises nothing and leaves the bridge not connected, without
\* a server and without a cached handshake result; a close() that follows a
\* close(), or is the first call on the bridge, changes nothing.
C19_CloseIdempotent ==
    last.op = "close" =>
        /\ last.outcome = "returned"
        /\ ~is_connected
        /\ server_info = "None"
        /\ server = 0
        /\ \A i \in 1..Len(servers) :
              i = Len(servers) => ~servers[i].is_running /\ servers[i].open = {}
        /\ last.prev \in {"close", "none"} => ~last.changed

\* A connected bridge has been closed twice.
C19_Witness ==
    /\ last.op = "close" /\ last.prev = "close"
    /\ Len(servers) = 1
    /\ Len(servers[1].written) = 3
    /\ ~servers[1].is_running

\* The argument lists without a package spec: the empty one, and one of
\* flags and their values only.
WithoutPackageSpec == {<<>>, <<"--from", "git+https://x", "--quiet">>}

\* Call c handed parse_mcp_server_params an argument list without a
\* package spec.
GaveNoPackageSpec(c) ==
    \E args \in WithoutPackageSpec : ("args:" \o Join(args, " ")) \in events[c]

\* C32: an argument list without a package spec (empty, or flags and their
\* values only) makes parse_mcp_server_params raise before any installation
\* step; the call is answered with an error response and creates and
\* launches no worker.
C32_NoPackageSpecFatal ==
    \A c \in Calls :
        GaveNoPackageSpec(c) =>
            /\ "install" \notin events[c]
            /\ "unresolved" \in events[c]
            /\ {"caller", "launch", "write"} \cap events[c] = {}
            /\ created[c] = 0 /\ started[c] = 0 /\ handle[c] = "None"
            /\ mcp_caller[c] = 0
            /\ written[c] = <<>>
            /\ pc[c] \in {"except", "closing", "releasing"}
            /\ Returning(c) =>
                  /\ IsError(retval[c], INTERNAL_ERROR)
                  /\ "result" \notin DOMAIN retval[c]

\* A call whose server args are flags and their values only has been
\* answered with an error.
C32_Witness ==
    \E c \in Calls :
        /\ pc[c] = "releasing"
        /\ "args:--from git+https://x --quiet" \in events[c]
        /\ IsError(retval[c], INTERNAL_ERROR)

\* C33: record_span(name, parent_seq) ends the span before it if that is
\* still running, with status success, and appends one span with status
\* running whose parent is parent_seq or, when none is given, the Tracer's
\* own parent; every other span stays as it was and none is removed.
C33_RecordSpanFrame ==
    tracer_last.op = "record" =>
        LET before == tracer_last.before
            n == Len(before)
        IN
        /\ Len(spans) = n + 1
        /\ spans[n + 1].seq = "span"
        /\ spans[n + 1].status = "running"
        /\ spans[n + 1].parent_seq =
               (IF tracer_last.parent_seq \in {Null, ""}
                THEN current_parent ELSE tracer_last.parent_seq)
        /\ \A i \in 1..(n - 1) : spans[i] = before[i]
        /\ n > 0 =>
              /\ spans[n].seq = before[n].seq
              /\ spans[n].status =
                     (IF before[n].status = "running" THEN "success"
                      ELSE before[n].status)
              /\ before[n].status # "running" => spans[n] = before[n]

\* record_span without a parent_seq has ended a running span and appended
\* one under the Tracer's parent, beside an earlier span.
C33_Witness ==
    /\ tracer_last.op = "record"
    /\ tracer_last.parent_seq = Null
    /\ current_parent = "root"
    /\ Len(tracer_last.before) = 2
    /\ tracer_last.before[2].status = "running"
    /\ spans[2].status = "success"
    /\ spans[3].parent_seq = "root"

\* The flags that take the next token as their value.
ValueFlags == {"--from", "--with", "--index-url", "--extra-index-url"}

\* The token grammar read left to right from position i: the values of the
\* four flags, and the first bare token that is the value of no flag.
RECURSIVE Grammar(_, _, _)
Grammar(args, i, g) ==
    IF i > Len(args) THEN g
    ELSE IF args[i] \in ValueFlags /\ i < Len(args)
    THEN Grammar(args, i + 2,
             [g EXCEPT !.values = Append(@, <<args[i], args[i + 1]>>)])
    ELSE IF StartsWith(args[i], "--")
    THEN Grammar(args, IF i < Len(args) /\ ~StartsWith(args[i + 1], "--")
                       THEN i + 2 ELSE i + 1, g)
    ELSE IF g.package_spec = <<>>
    THEN Grammar(args, i + 1, [g EXCEPT !.package_spec = <<args[i]>>])
    ELSE Grammar(args, i + 1, g)

\* The values the grammar gives flag f, in their order.
ValuesOf(g, f) ==
    LET own == SelectSeq(g.values, LAMBDA v : v[1] = f) IN
    [k \in DOMAIN own |-> own[k][2]]

\* The last of a sequence of values, None for none.
LastOf(values) == IF values = <<>> THEN Null ELSE values[Len(values)]

RECURSIVE Flatten(_)
Flatten(lists) ==
    IF lists = <<>> THEN <<>> ELSE Head(lists) \o Flatten(Tail(lists))

\* C34: the tokens are read left to right: --from, --with, --index-url and
\* --extra-index-url take the next token as their value; another --flag
\* takes the token after it if and only if that does not start with --;
\* the first bare token left is the package spec, and a later bare token
\* replaces neither the package name nor the entry.
C34_TokenGrammar ==
    uv_result.outcome # "none" =>
        LET g == Grammar(uv_args, 1, [values |-> <<>>, package_spec |-> <<>>])
        IN
        /\ g.package_spec = <<>> =>
              uv_result.outcome = "raised" /\ uv_result.error = "ValueError"
        /\ uv_result.outcome = "returned" =>
              /\ g.package_spec # <<>>
              /\ uv_result.package_name =
                     SplitFirst(g.package_spec[1] \o ":", ":")[1]
              /\ uv_result.entry_point = EntryOf(g.package_spec[1])
              /\ uv_result.source_path = LastOf(ValuesOf(g, "--from"))
              /\ uv_result.with_deps =
                     Flatten([k \in DOMAIN ValuesOf(g, "--with") |->
                                 Split(ValuesOf(g, "--with")[k], ",")])

\* The same for argument lists whose first bare token names a package.
TokenGrammarOfNamedSpecs ==
    LET g == Grammar(uv_args, 1, [values |-> <<>>, package_spec |-> <<>>]) IN
    (g.package_spec # <<>> => ~StartsWith(g.package_spec[1], ":")) =>
        C34_TokenGrammar

\* The (module, function) pairs the console scripts named name stand for:
\* those whose target has a ':', split on its last ':'.
ScriptTargets(console_scripts, names) ==
    { RSplit(console_scripts[k][2], ":") :
          k \in { j \in DOMAIN console_scripts :
                      /\ console_scripts[j][1] \in names
                      /\ HasChar(console_scripts[j][2], ":") } }

ScriptNames(console_scripts) ==
    { console_scripts[k][1] : k \in DOMAIN console_scripts }

\* First match wins: an explicit entry; else the console script named as
\* the package; else any console script; else the first guess.
FirstMatchWins(console_scripts) ==
    uv_result.outcome = "returned" =>
        LET name == uv_result.package_name
            own == ScriptTargets(console_scripts, {name})
            any == ScriptTargets(console_scripts, ScriptNames(console_scripts))
        IN
        IF ~Falsy(uv_result.entry_point)
        THEN \A other \in ConsoleScripts :
                 Target = resolve_entry_point(name, uv_result.entry_point, other)
        ELSE IF own # {} THEN Target \in own
        ELSE IF any # {} THEN Target \in any
        ELSE Target = <<Underscored(name), "main">>

\* C35: the entry point is the first of: the explicit entry of the spec; a
\* console script of the package's installed metadata named exactly as the
\* package; any console script of it; the first guess.  A package whose
\* installed metadata has console scripts, given no explicit entry, gets a
\* console-script target and not the guess.
C35_ResolutionOrder == FirstMatchWins(uv_result.advertised)

\* The same order over the console scripts uv pip inspect reports.
ResolutionOrderOfInspected == FirstMatchWins(uv_result.console_scripts)

\* The names of the dispatcher's spans, in the order rpc_handler records them.
DispatcherStages ==
    <<"inputValidation", "extractingServerConfig", "connectToServer",
      "executeMcpCall">>

\* The spans sps are the dispatcher's stages up to the one reached, and with
\* failed the last has status error, otherwise every span has status success.
StageSpans(sps, failed) ==
    /\ sps # <<>> /\ Len(sps) <= Len(DispatcherStages)
    /\ \A i \in DOMAIN sps :
          /\ sps[i].seq = DispatcherStages[i]
          /\ sps[i].status = IF failed /\ i = Len(sps) THEN "error" ELSE "success"

\* The calls whose response carries the trace of a call that was not
\* answered by the outlet itself.
ForwardedTrace(c) ==
    /\ Returning(c) /\ ~IsRaised(retval[c])
    /\ \A i \in DOMAIN tracer[c] : tracer[c][i].seq # "outletHandler"

\* C36: in the trace returned with a forwarded call the dispatcher's spans
\* are inputValidation, extractingServerConfig, connectToServer,
\* executeMcpCall in this order, each present only if its stage was reached;
\* when the call fails the span of the failing stage is the last one and has
\* status error while all earlier ones have status success, and when the
\* call succeeds every span has status success.
C36_DispatcherSpanOrder ==
    \A c \in Calls :
        ForwardedTrace(c) => StageSpans(tracer[c], "error" \in DOMAIN retval[c])

\* The same for every call but those answered with the TypeError that a
\* result which is not an object raises in the return statement.
DispatcherSpanOrderOfObjectResults ==
    \A c \in Calls :
        (/\ ForwardedTrace(c)
         /\ ~("error" \in DOMAIN retval[c]
                /\ retval[c].error.message = "not a mapping")) =>
            StageSpans(tracer[c], "error" \in DOMAIN retval[c])

\* A call whose worker answered with a scalar result is answered with an
\* error although each of its four spans has status success.
DispatcherSpanOrderFailure ==
    \E c \in Calls :
        /\ pc[c] = "releasing"
        /\ ExecuteEnded(c, "scalar")
        /\ IsError(retval[c], INTERNAL_ERROR)
        /\ Len(tracer[c]) = 4
        /\ \A i \in 1..4 : tracer[c][i].status = "success"

\* The worker threads alive: those of the handles started and not stopped,
\* and those a stop() left running.
WorkerThreads ==
    lingering + Cardinality({h \in Calls : Live(handle[h])})

\* C37: whenever the admission lock is free no worker thread launched by an
\* earlier call is still running, and at most one worker thread is alive at
\* any time, also when a worker does not end within the join of stop().
C37_OneWorkerThread ==
    /\ ~locked => WorkerThreads = 0
    /\ WorkerThreads <= 1

\* A call is served by a worker thread while the thread of an earlier call,
\* which did not end within the join, is still running.
TwoWorkerThreads ==
    \E c \in Calls :
        /\ pc[c] = "closing" /\ ExecuteEnded(c, "result")
        /\ handle[mcp_caller[c]] = "Connected"
        /\ lingering = 1

\* The bridge has no connection: not self._is_connected or not self._server.
Disconnected == ~is_connected \/ server = 0

ConnectFailed == last.op = "connect" /\ last.outcome \notin {"returned", "cached"}

\* C38: a bridge that was never connected, whose connect() failed, or that
\* has been closed has no connection, and execute on a bridge without
\* connection raises ConnectionClosed (-32001) for any method other than
\* initialize, starts no worker and writes to no channel; a closed bridge
\* returns no result for any method.
C38_NotConnected ==
    /\ servers = <<>> => Disconnected
    /\ ConnectFailed => Disconnected
    /\ last.op = "close" => ~is_connected /\ server = 0
    /\ last.op = "execute" /\ Disconnected /\ last.method # "initialize" =>
          /\ last.outcome = "raised:CustomError"
          /\ last.code = CONNECTION_CLOSED
          /\ ~last.launched
          /\ last.wrote = <<>>
    /\ last.op = "execute" /\ ~is_connected =>
          /\ last.outcome = "raised:CustomError"
          /\ last.code = CONNECTION_CLOSED

\* tools/call on a bridge whose second connect() failed is refused.
C38_Witness ==
    /\ last.op = "execute" /\ last.method = "tools/call"
    /\ last.prev = "connect"
    /\ is_connected /\ server = 0
    /\ Len(servers) = 2
    /\ last.code = CONNECTION_CLOSED
    /\ \A i \in DOMAIN servers : servers[i].written[Len(servers[i].written)] # "request"

\* tools/call on a closed bridge is refused.
ClosedBridgeRefuses ==
    /\ last.op = "execute" /\ last.method = "tools/call"
    /\ last.prev = "close" /\ servers # <<>>
    /\ last.code = CONNECTION_CLOSED

\* tools/call on a bridge never connected is refused.
FreshBridgeRefuses ==
    /\ last.op = "execute" /\ last.method = "tools/call"
    /\ servers = <<>>
    /\ last.code = CONNECTION_CLOSED

\* The entry point of call c's worker could not be loaded or raised.
EntryFailed(c) == {"entry:raises", "entry:exits"} \cap events[c] # {}

\* The call went through the handshake without waiting for select() to
\* expire, and was answered as the claim says.
FailsFast(c) ==
    /\ "initialize:timeout" \notin events[c]
    /\ pc[c] \in {"except", "closing", "releasing"}
    /\ handle[mcp_caller[c]] = "Closed"
    /\ Lines(c) = <<"initialize">>
    /\ Returning(c) => IsError(retval[c], INTERNAL_ERROR)

\* C39: if the resolved entry point cannot be loaded or raises inside the
\* worker, the handshake fails and the call is answered with InternalError
\* (-32603) without waiting for the request timeout; the forwarded request
\* is never written and the WorkerHandle is closed before the lock is
\* released.
C39_EntryPointFailure ==
    \A c \in Calls : EntryFailed(c) => FailsFast(c)

\* The same for an entry point that cannot be loaded or raises an Exception.
EntryPointExceptionFailsFast ==
    \A c \in Calls : "entry:raises" \in events[c] => FailsFast(c)

\* An entry point that exits: the call waits for the request timeout, and
\* is then answered with InternalError, nothing but initialize written.
EntryPointExitWaits ==
    \E c \in Calls :
        /\ pc[c] = "releasing"
        /\ "entry:exits" \in events[c]
        /\ "initialize:timeout" \in events[c]
        /\ IsError(retval[c], INTERNAL_ERROR)
        /\ handle[mcp_caller[c]] = "Closed"
        /\ Lines(c) = <<"initialize">>
====
